---------------------------- MODULE Spec2Model ----------------------------
(***************************************************************************)
(* A model of the VM-to-debugger bridge of dalvik/vm/Debugger.c:           *)
(*   - the object registry (registerObject, lookupId, objectIsRegistered,  *)
(*     dvmGcMarkDebuggerRefs, dvmDbgConnected/Active/Disconnected), with   *)
(*     one step per lock acquisition, registry access and lock release;    *)
(*   - cross-thread method invocation (dvmDbgInvokeMethod on the JDWP      *)
(*     handler thread, dvmDbgExecuteMethod on the target thread).          *)
(***************************************************************************)
EXTENDS Integers, FiniteSets, Sequences, TLC

(***************************************************************************)
(* Bounds of the exploration.                                              *)
(***************************************************************************)
\* number of distinct heap objects the VM threads hand to the registry
MaxObj == 2
\* deepest suspend count the debugger drives a thread to
MaxSuspend == 2

(***************************************************************************)
(* Program constants.                                                      *)
(***************************************************************************)
\* typedef enum RegistryType { kObjectId = 0xc1, kRefTypeId }
kObjectId == 193
kRefTypeId == 194
\* registryHash: val >> 4
HashShift == 4
\* assert((u4) obj > 0x100)
MinObjAddr == 256
\* objects are at least 8 bytes
ObjAlign == 8

NULL == 0
NoThread == "none"

\* An ObjectId is a u8, kept as its two 32-bit halves: hi = bits 32..63,
\* lo = bits 0..31.  The identifier 0 is the null reference.
ZeroId == [ hi |-> 0, lo |-> 0 ]

\* The heap objects of the model: 8-byte aligned addresses above 0x100.
ObjAddrs == { MinObjAddr + ObjAlign * i : i \in 1..MaxObj }

RegistryTypes == { kObjectId, kRefTypeId }

(***************************************************************************)
(* Threads that use the registry: the JDWP handler thread, the VM worker   *)
(* threads (which post events) and the collector.                          *)
(***************************************************************************)
Handler == "jdwp"
Workers == { "w1", "w2" }
Collector == "gc"
Mutators == { Handler } \cup Workers
RegThreads == Mutators \cup { Collector }

VARIABLES
    \* ---- object registry (gDvm) ----
    registryAlloc,      \* gDvm.dbgRegistry != NULL
    dbgRegistry,        \* the entries of gDvm.dbgRegistry: (void*)(u4) id
    debuggerConnected,  \* gDvm.debuggerConnected
    debuggerActive,     \* gDvm.debuggerActive
    regLock,            \* holder of the registry's lock, or NoThread
    pc,                 \* position of every registry thread
    regArg,             \* per thread: the arguments of the call in progress
    regFound,           \* what the handler's last objectIsRegistered returned
    marked,             \* objects marked by the current/last mark pass
    markCursor,         \* last table slot the mark iteration has passed
    \* ---- VM threads and cross-thread invocation ----
    suspendCount,       \* Thread.suspendCount of every VM thread
    invokeReq,          \* Thread.invokeReq (DebugInvokeReq) of every VM thread
    threadStatus,       \* Thread.status of every VM thread
    threadException,    \* Thread.exception: the pending exception, or NULL
    tpc,                \* position of every VM thread
    lastCall,           \* per thread: what its last dvmCallMethodA did
    reqLock,            \* holder of invokeReq.lock of every VM thread
    reqSignal,          \* invokeReq.cv of every VM thread has been signalled
    hpc,                \* position of the handler in dvmDbgInvokeMethod
    hCall,              \* the arguments of the handler's dvmDbgInvokeMethod
    hOut,               \* err, *pResultTag, *pResultValue, *pExceptObj
    hStatus,            \* the handler thread's own status
    preSuspend,         \* suspend counts when the request was accepted
    \* ---- XML parser context (ParsingContext) ----
    internedStrings,    \* parsingContext->internedStrings: the buckets that
                        \* are not NULL, by bucket index
    globalRefs,         \* per byte string: the global references made to it
    xmlFault,           \* env->ExceptionCheck(): an exception is pending
    lastIntern,         \* the last internString call: argument and result
    firstHandle,        \* per byte sequence: the first handle returned for it
    processNamespaces,  \* parsingContext->processNamespaces
    stringStack,        \* parsingContext->stringStack: array, capacity, size
    openTags,           \* the elements and namespaces opened by callbacks
    openEvents,         \* what the listener was told at each open start
    lastEvent,          \* the last call made to the listener
    attributes,         \* the attribute array exposed to the listener
    lastLookup,         \* the last attribute lookup: query and result
    \* ---- DEX verification ----
    hostOrder,          \* __BYTE_ORDER of the build that runs the verifier
    dexFile,            \* addr and len: the bytes handed to the verifier
    dexFlip,            \* the byte changed since the file was accepted
    dexRun,             \* the last dexFixByteOrdering call and what it left
    \* ---- DEX verifier: one class definition and its class data ----
    classFile,          \* the class definition, the class-data item, the ids
    classRun,           \* how far verification of classFile has come
    \* ---- DEX verifier: one code item ----
    codeFile,           \* the bytes of the code item and what they encode
    codeRun,            \* the last swapCodeItem call and what it left
    \* ---- DEX verifier: one string-data item ----
    strFile,            \* the bytes at the item and where the file ends
    strRun,             \* the last intraVerifyStringDataItem call
    \* ---- debugger: local-variable slots ----
    slotLocal,          \* a method and one entry of its local-variable table
    slotRun,            \* the slot reported for it and the register a request resolves to
    \* ---- debugger: array windows ----
    arrReq,             \* an array and the window a debugger packet names
    arrRun,             \* what the call returned and the elements it touched
    \* ---- XML parser: one parse call ----
    parseCtx,           \* env and object of the ParsingContext, and the entry point
    parseLog,           \* the last callback entered with an exception pending,
                        \* whether a listener fed an entity parser, and
                        \* whether a text or comment listener was handed the
                        \* length -1
    \* ---- debugger: posted events ----
    postEvent,          \* the event posted last, and the table before it
    postSent,           \* what was handed to the wire-protocol engine
    \* ---- DEX index tables ----
    idTable,            \* a section of an index table of a DEX file
    idRun,              \* the cross-item iteration over it
    \* ---- DEX class_defs section ----
    defFile,            \* a file with a class_defs section
    defRun,             \* the verification of the section
    \* ---- debugger: addresses of a line ----
    lineReq,            \* the position entries of a method and the line asked for
    lineRun,            \* the call of dvmAddressSetForLine
    \* ---- debugger: frames of a thread ----
    threadList,         \* gDvm.threadList: the thread object and frame chain of each thread
    frameCall           \* the last call of dvmDbgGetThreadFrameCount or dvmDbgGetThreadFrame

regVars == << registryAlloc, dbgRegistry, debuggerConnected, debuggerActive,
              regLock, pc, regArg, regFound, marked, markCursor >>

invVars == << suspendCount, invokeReq, threadStatus, threadException, tpc,
              lastCall, reqLock, reqSignal, hpc, hCall, hOut, hStatus,
              preSuspend >>

internVars == << internedStrings, globalRefs, xmlFault, lastIntern,
                 firstHandle >>

nameVars == << processNamespaces, stringStack, openTags, openEvents,
               lastEvent >>

xmlVars == << internVars, nameVars >>

attrVars == << attributes, lastLookup >>

\* the state of the subsystems other than the debugger and the name stack
dexVars == << hostOrder, dexFile, dexFlip, dexRun >>

classVars == << classFile, classRun >>

codeVars == << codeFile, codeRun >>

strVars == << strFile, strRun >>

slotVars == << slotLocal, slotRun >>

arrVars == << arrReq, arrRun >>

parseVars == << parseCtx, parseLog >>

postVars == << postEvent, postSent >>

idsVars == << idTable, idRun >>

defVars == << defFile, defRun >>

lineVars == << lineReq, lineRun >>

frameVars == << threadList, frameCall >>

otherVars == << attrVars, dexVars, classVars, codeVars, strVars, slotVars,
                arrVars, parseVars, postVars, idsVars, defVars, lineVars,
                frameVars >>

vars == << regVars, invVars, xmlVars, otherVars >>

\* what the registry actions leave alone
regFrame == << invVars, xmlVars, otherVars >>

\* what the invocation actions leave alone, besides the registry's table
invFrame == << registryAlloc, debuggerConnected, debuggerActive, regLock, pc,
               regArg, regFound, marked, markCursor, xmlVars, otherVars >>

\* what the XML parser's actions leave alone
xmlFrame == << regVars, invVars, otherVars >>

\* what the attribute accessors leave alone
attrFrame == << regVars, invVars, xmlVars, dexVars, classVars, codeVars,
                strVars, slotVars, arrVars, parseVars, postVars, idsVars,
                defVars, lineVars, frameVars >>

\* what the DEX verifier leaves alone
dexFrame == << regVars, invVars, xmlVars, attrVars, classVars, codeVars,
               strVars, slotVars, arrVars, parseVars, postVars, idsVars,
               defVars, lineVars, frameVars >>

\* what verification of a class definition leaves alone
classFrame == << regVars, invVars, xmlVars, attrVars, dexVars, codeVars,
                 strVars, slotVars, arrVars, parseVars, postVars, idsVars,
                 defVars, lineVars, frameVars >>

\* what verification of a code item leaves alone: all but the byte order
codeFrame == << regVars, invVars, xmlVars, attrVars, classVars, dexFile,
                dexFlip, dexRun, strVars, slotVars, arrVars, parseVars,
                postVars, idsVars, defVars, lineVars, frameVars >>

\* what verification of a string-data item leaves alone
strFrame == << regVars, invVars, xmlVars, attrVars, dexVars, classVars,
               codeVars, slotVars, arrVars, parseVars, postVars, idsVars,
               defVars, lineVars, frameVars >>

\* what slot remapping leaves alone
slotFrame == << regVars, invVars, xmlVars, attrVars, dexVars, classVars,
                codeVars, strVars, arrVars, parseVars, postVars, idsVars,
                defVars, lineVars, frameVars >>

\* what array access leaves alone
arrFrame == << regVars, invVars, xmlVars, attrVars, dexVars, classVars,
               codeVars, strVars, slotVars, parseVars, postVars, idsVars,
               defVars, lineVars, frameVars >>

\* what a parse call leaves alone, the parser context apart
parseFrame == << regVars, invVars, attrVars, dexVars, classVars, codeVars,
                 strVars, slotVars, arrVars, postVars, idsVars, defVars,
                 lineVars, frameVars >>

\* what posting an event leaves alone, the registry apart
postFrame == << attrVars, dexVars, classVars, codeVars, strVars, slotVars,
                arrVars, parseVars, idsVars, defVars, lineVars, frameVars >>

\* what the cross-item checks of an index table leave alone
idsFrame == << regVars, invVars, xmlVars, attrVars, dexVars, classVars,
               codeVars, strVars, slotVars, arrVars, parseVars, postVars,
               defVars, lineVars, frameVars >>

\* what verification of the class_defs section leaves alone, the byte
\* order apart
defFrame == << regVars, invVars, xmlVars, attrVars, classVars, codeVars,
               strVars, slotVars, arrVars, parseVars, postVars, idsVars,
               lineVars, frameVars >>

\* what dvmAddressSetForLine leaves alone
lineFrame == << regVars, invVars, xmlVars, attrVars, dexVars, classVars,
                codeVars, strVars, slotVars, arrVars, parseVars, postVars,
                idsVars, defVars, frameVars >>

\* what the frame queries leave alone
frameFrame == << regVars, invVars, xmlVars, attrVars, dexVars, classVars,
                 codeVars, strVars, slotVars, arrVars, parseVars, postVars,
                 idsVars, defVars, lineVars >>

\* what a bare internString call leaves alone
internFrame == << xmlFrame, nameVars >>

(***************************************************************************)
(* Identifier packing and registry primitives.                             *)
(***************************************************************************)
\* id = (ObjectId)(u4)obj | ((u8) type) << 32
PackId(obj, type) == [ hi |-> type, lo |-> obj ]

\* (void*)(u4) id : the value stored in, and searched for in, the table
Low32(id) == id.lo

registryHash(val) == val \div (2 ^ HashShift)

registryCompare(obj1, obj2) == obj1 - obj2

\* lookupId: dvmHashTableLookup(..., doAdd = false) != NULL
lookupId(id) ==
    \E e \in dbgRegistry :
        /\ registryHash(e) = registryHash(Low32(id))
        /\ registryCompare(e, Low32(id)) = 0

\* dvmHashTableLookup(..., doAdd = true): add unless an equal item is there
HashAdd(table, id) ==
    IF \E e \in table : registryCompare(e, Low32(id)) = 0
    THEN table
    ELSE table \cup { Low32(id) }

NoArg == [ obj |-> NULL, type |-> kObjectId, reg |-> FALSE ]

TypeOK ==
    /\ registryAlloc \in BOOLEAN
    /\ dbgRegistry \subseteq ObjAddrs
    /\ debuggerConnected \in BOOLEAN
    /\ debuggerActive \in BOOLEAN
    /\ regLock \in RegThreads \cup { NoThread }
    /\ marked \subseteq ObjAddrs

(***************************************************************************)
(* VM threads, tags and invocation requests.                               *)
(***************************************************************************)
\* the threads on the VM's thread list (the handler thread is not a target)
VmThreads == { "t1", "t2" }
\* a thread object whose Thread has left the thread list
GoneThread == "gone"
ThreadIds == VmThreads \cup { GoneThread }
\* the threads that reach debugger events; the others only run
EventThreads == { "t1" }

\* bits of the "options" argument
InvokeOptions == SUBSET { "INVOKE_SINGLE_THREADED", "INVOKE_NONVIRTUAL" }

\* the methods the debugger asks for: one virtual method declared to return
\* Object, one direct method declared to return int
Methods == { "getValue", "size" }

dvmIsDirectMethod(method) == method = "size"

\* dexProtoGetReturnType(&method->prototype)
ReturnDescriptor(method) == IF method = "size" THEN "I" ELSE "L"

\* dvmGetVirtualizedMethod: the receiver class's override, same prototype
dvmGetVirtualizedMethod(clazz, method) == method

\* the heap objects an invocation handles: a String and a plain Object
FirstObj == MinObjAddr + ObjAlign
SecondObj == MinObjAddr + 2 * ObjAlign

\* the class of a heap object: the first object is a String
ClassOf(obj) == IF obj = FirstObj THEN "Ljava/lang/String;"
                                               ELSE "Ljava/lang/Object;"

\* dvmDbgGetSignatureTag, for the descriptors of the model
dvmDbgGetSignatureTag(type) ==
    CASE type = "Ljava/lang/String;" -> "JT_STRING"
      [] type = "Ljava/lang/Class;" -> "JT_CLASS_OBJECT"
      [] type = "Ljava/lang/Thread;" -> "JT_THREAD"
      [] type = "Ljava/lang/ThreadGroup;" -> "JT_THREAD_GROUP"
      [] type = "Ljava/lang/ClassLoader;" -> "JT_CLASS_LOADER"
      [] type = "L" -> "JT_OBJECT"
      [] type = "I" -> "JT_INT"
      [] type = "V" -> "JT_VOID"
      [] OTHER -> "JT_OBJECT"

resultTagFromSignature(method) == dvmDbgGetSignatureTag(ReturnDescriptor(method))

resultTagFromObject(obj) ==
    IF obj = NULL THEN "JT_OBJECT"
    ELSE CASE ClassOf(obj) = "Ljava/lang/String;" -> "JT_STRING"
           [] ClassOf(obj) = "Ljava/lang/Class;" -> "JT_CLASS_OBJECT"
           [] ClassOf(obj) = "Ljava/lang/Thread;" -> "JT_THREAD"
           [] ClassOf(obj) = "Ljava/lang/ThreadGroup;" -> "JT_THREAD_GROUP"
           [] ClassOf(obj) = "Ljava/lang/ClassLoader;" -> "JT_CLASS_LOADER"
           [] OTHER -> "JT_OBJECT"

isTagPrimitive(tag) ==
    tag \in { "JT_BYTE", "JT_CHAR", "JT_FLOAT", "JT_DOUBLE", "JT_INT",
              "JT_LONG", "JT_SHORT", "JT_VOID", "JT_BOOLEAN" }

\* a DebugInvokeReq before any request has been posted
NoReq == [ ready |-> FALSE, invokeNeeded |-> FALSE,
           obj |-> NULL, thread |-> GoneThread, clazz |-> NULL,
           method |-> "size", numArgs |-> 0, options |-> {},
           resultTag |-> "JT_VOID", resultValue |-> 0,
           exceptObj |-> ZeroId, err |-> "ERR_NONE" ]

\* the fields dvmDbgInvokeMethod posts
Posted(req) == << req.obj, req.thread, req.clazz, req.method, req.numArgs,
                  req.options >>

NoCall == [ thread |-> GoneThread, obj |-> NULL, method |-> "size",
            options |-> {}, oldStatus |-> "THREAD_RUNNING" ]

NoOut == [ err |-> "ERR_NONE", resultTag |-> "JT_VOID", resultValue |-> ZeroId,
           exceptObj |-> ZeroId ]

\* what dvmCallMethodA left (exception raised, value stored) and the exception
\* pending once the result has been recorded, before the old one is put back
NoOutcome == [ thrown |-> NULL, ret |-> 0, pending |-> NULL ]

\* all VM threads running, no request posted, the handler idle
InitThreads ==
    /\ suspendCount = [ t \in VmThreads |-> 0 ]
    /\ invokeReq = [ t \in VmThreads |-> NoReq ]
    /\ threadStatus = [ t \in VmThreads |-> "THREAD_RUNNING" ]
    /\ threadException = [ t \in VmThreads |-> NULL ]
    /\ tpc = [ t \in VmThreads |-> "running" ]
    /\ lastCall = [ t \in VmThreads |-> NoOutcome ]
    /\ reqLock = [ t \in VmThreads |-> NoThread ]
    /\ reqSignal = [ t \in VmThreads |-> FALSE ]
    /\ hpc = "idle"
    /\ hCall = NoCall
    /\ hOut = NoOut
    /\ hStatus = "THREAD_RUNNING"
    /\ preSuspend = [ t \in VmThreads |-> 0 ]

(***************************************************************************)
(* XML parser context (org_apache_harmony_xml_ExpatParser.cpp): the cache  *)
(* of interned strings.  A byte string is a sequence of byte values; a     *)
(* handle is a global reference to a Java string, and the Java string is   *)
(* identified with the bytes it was made from (the runtime's intern gives  *)
(* distinct byte strings distinct strings).  A handle is named by its      *)
(* string and by the number of the reference among those to that string.   *)
(***************************************************************************)
BUCKET_COUNT == 128
\* hashString: hash = hash * 31 + *s++
HashMul == 31

\* most global references a parser context creates in a run
MaxRefs == 5

\* the byte strings handed to internString: "", "a", and three that share a
\* bucket: "Aa" and "BB" have the same hash, "FF" a hash 128 above it
InternInputs == { << >>, << 97 >>, << 65, 97 >>, << 66, 66 >>, << 70, 70 >> }

NoHandle == [ ref |-> 0, str |-> << >> ]

NoEntry == [ interned |-> NoHandle, bytes |-> << >>, hash |-> -1 ]

\* the steps of internString that can fail
FailPoints == { "none", "wrapper", "copy", "newString", "intern", "globalRef",
                "bucket" }

\* the strings explored are short enough for the hash to stay inside an int
RECURSIVE hashString(_)
hashString(s) ==
    IF s = << >> THEN 0
    ELSE hashString(SubSeq(s, 1, Len(s) - 1)) * HashMul + s[Len(s)]

NoIntern == [ tick |-> 0, isNull |-> TRUE, s |-> << >>, result |-> NoHandle,
              failed |-> FALSE ]

\* buckets[bucketIndex], << >> standing for NULL
BucketAt(buckets, bucketIndex) ==
    IF bucketIndex \in DOMAIN buckets THEN buckets[bucketIndex] ELSE << >>

\* the global references made to string "bytes", and all of them
RefsTo(refs, bytes) == IF bytes \in DOMAIN refs THEN refs[bytes] ELSE 0

RECURSIVE SumOver(_, _)
SumOver(f, dom) ==
    IF dom = {} THEN 0
    ELSE LET x == CHOOSE y \in dom : TRUE
         IN  f[x] + SumOver(f, dom \ { x })

RefCount(refs) == SumOver(refs, DOMAIN refs)

\* NewGlobalRef(interned): the table with one more reference to "bytes"
NewGlobalRef(refs, bytes) ==
    [ b \in DOMAIN refs \cup { bytes } |->
        IF b = bytes THEN RefsTo(refs, bytes) + 1 ELSE refs[b] ]

InitIntern ==
    /\ internedStrings = << >>
    /\ globalRefs = << >>
    /\ xmlFault = FALSE
    /\ lastIntern = NoIntern
    /\ firstHandle = [ s \in InternInputs |-> NoHandle ]

\* the engine nests at most this many elements and namespaces
MaxDepth == 4

\* int stackSize = 10;
StackSize == 10
Bar == 124
Colon == 58

\* the static emptyString handle (not a cache entry)
emptyString == [ ref |-> -1, str |-> << >> ]

\* a const char* argument: NULL, or a byte string
NullString == [ null |-> TRUE, bytes |-> << >> ]
CString(bytes) == [ null |-> FALSE, bytes |-> bytes ]

\* element names as the engine packs them: "h", "u|h|p"
ElementNames == { << 104 >>, << 117, Bar, 104, Bar, 112 >> }

\* what goes wrong inside a callback: nothing, a step of internString, the
\* growth of the name stack, or the listener throwing
CallbackFaults == { "none", "intern", "bucket", "grow", "throws" }

\* namespace prefixes and URIs: NULL, "p" / NULL, "u"
NsPrefixes == { NullString, CString(<< 112 >>) }
NsUris == { NullString, CString(<< 117 >>) }

NoEvent == [ tick |-> 0, kind |-> "none", uri |-> NoHandle,
             localName |-> NoHandle, qName |-> NoHandle ]

InitNames ==
    /\ processNamespaces = TRUE
    /\ stringStack = [ array |-> << >>, capacity |-> StackSize, size |-> 0 ]
    /\ openTags = << >>
    /\ openEvents = << >>
    /\ lastEvent = NoEvent

\* ---- attribute arrays ----
MaxAttrs == 2

Html    == << 104, 116, 109, 108 >>   \* "html"
Xyz     == << 120, 121, 122 >>        \* "xyz"
H1      == << 104, 49 >>              \* "h1"
H2      == << 104, 50 >>              \* "h2"
UriU    == << 117 >>                  \* "u"

\* the attributes a document can carry: namespace URI, local name, prefix
AttributeNames ==
    { [ uri |-> UriU,  local |-> H1, prefix |-> Html ],
      [ uri |-> UriU,  local |-> H1, prefix |-> << >> ],
      [ uri |-> << >>, local |-> H1, prefix |-> << >> ],
      [ uri |-> << >>, local |-> Html \o << Colon >> \o H1, prefix |-> << >> ],
      [ uri |-> UriU,  local |-> H2, prefix |-> Html ],
      [ uri |-> UriU,  local |-> H1, prefix |-> Xyz ] }

\* the qualified names a caller asks for
QNameQueries ==
    { Html \o << Colon >> \o H1, Xyz \o << Colon >> \o H1, H1, H2,
      << 120 >> \o << Colon >> \o H1,
      << 104, 116, 109, 120 >> \o << Colon >> \o H1 }

\* the name the underlying parser hands over for an attribute:
\* "uri|localName|prefix", "uri|localName" or "localName"
PackedName(a) ==
    IF a.prefix # << >>
    THEN a.uri \o << Bar >> \o a.local \o << Bar >> \o a.prefix
    ELSE IF a.uri # << >> THEN a.uri \o << Bar >> \o a.local
    ELSE a.local

AttributeArrays ==
    UNION { [ 1..n -> AttributeNames ] : n \in 0..MaxAttrs }

NoLookup == [ called |-> FALSE, qName |-> << >>, failed |-> FALSE,
              found |-> -1 ]

InitAttrs ==
    /\ attributes = << >>
    /\ lastLookup = NoLookup

\* ---- DEX files ----
MaxTrailing == 1

HostOrders == { "little", "big" }

\* ways a file's byte is changed: the bits of the mask are inverted
FlipMasks == { 1, 128, 255 }

NoDexFile == [ bytes |-> << >>, len |-> 0, strings |-> << >>,
               edit |-> "none", fileSize |-> 0 ]
NoFlip == [ flipped |-> FALSE, pos |-> 0, mask |-> 0 ]

\* the Tracking Map: NULL until dexDataMapAlloc
NoDataMap == [ allocated |-> FALSE, capacity |-> 0, entries |-> << >> ]

\* no call of dexFixByteOrdering on the file yet
NoRun == [ done |-> FALSE, returned |-> FALSE, okay |-> FALSE,
           stage |-> "none", failedAt |-> "none", buf |-> << >>,
           pDataMap |-> NoDataMap, visited |-> << >> ]

InitDex ==
    /\ hostOrder = "little"
    /\ dexFile = NoDexFile
    /\ dexFlip = NoFlip
    /\ dexRun = NoRun

\* ---- class definitions and class-data items ----
MaxMembers == 2

\* DexFieldId.classIdx and DexMethodId.classIdx of the two entries of the
\* field table and of the method table
FieldClassIdx  == << 0, 1 >>
MethodClassIdx == << 0, 1 >>
ClassIdxs == { FieldClassIdx[i] : i \in DOMAIN FieldClassIdx }

\* where the data section keeps the class_data_item and the code_item
DataLayout == [ classData |-> 112, code |-> 128 ]

\* an index into a table, or the first index past it
FieldIdxs  == 0..Len(FieldClassIdx)
MethodIdxs == 0..Len(MethodClassIdx)

\* a read through a pointer that lies in no mapping
Unmapped == -1

FieldEntries ==
    [ fieldIdx : FieldIdxs, accessFlags : { {}, { "ACC_STATIC" } } ]

MethodEntries ==
    [ methodIdx : MethodIdxs, accessFlags : { {}, { "ACC_STATIC" } },
      codeOff : { DataLayout.code } ]
    \cup [ methodIdx : { 0 }, accessFlags : { { "ACC_ABSTRACT" } },
           codeOff : { 0, DataLayout.code } ]
    \cup [ methodIdx : { 0 }, accessFlags : { {} }, codeOff : { 0 } ]

NoClassData == [ staticFields |-> << >>, instanceFields |-> << >>,
                 directMethods |-> << >>, virtualMethods |-> << >> ]
NoClassFile == [ loaded |-> FALSE,
                 classDef |-> [ classIdx |-> 0, classDataOff |-> 0 ],
                 classData |-> NoClassData, beyond |-> Unmapped ]
NoClassRun == [ stage |-> "none", done |-> FALSE, returned |-> FALSE,
                okay |-> FALSE, pDataMap |-> NoDataMap ]

InitClass ==
    /\ classFile = NoClassFile
    /\ classRun = NoClassRun

\* ---- code items ----
MaxTries == 2

\* the type table of the files with a code item: its length is typeIdsSize
TypeIds == << "LA;", "LB;" >>

NoCodeFile == [ loaded |-> FALSE, bytes |-> << >>, len |-> 0,
                insnsSize |-> 0, tries |-> << >>, handlers |-> << >> ]
NoCodeRun == [ done |-> FALSE, returned |-> FALSE, okay |-> FALSE,
               buf |-> << >>, next |-> 0 ]

InitCode ==
    /\ codeFile = NoCodeFile
    /\ codeRun = NoCodeRun

\* ---- string-data items ----
MaxPayload == 4

\* the bytes a payload is made of: the terminator, a one-byte character,
\* continuation bytes, two-byte lead bytes (for values 0, below and from
\* 0x80) and a three-byte lead byte
StringBytes == { 0, 127, 128, 191, 192, 193, 194, 224 }
Utf16Sizes == 0..2

NoStrFile == [ loaded |-> FALSE, bytes |-> << >>, len |-> 0 ]
NoStrRun == [ done |-> FALSE, returned |-> FALSE, okay |-> FALSE,
              next |-> 0, why |-> "none" ]

InitString ==
    /\ strFile = NoStrFile
    /\ strRun = NoStrRun


\* ---- local-variable slots ----
MaxLowReg == 3

kSlot0Sub == 1000

\* registers next to zero and next to kSlot0Sub
LocalRegs ==
    (0..MaxLowReg) \cup { kSlot0Sub - 1, kSlot0Sub, kSlot0Sub + 1 }
LocalNames == { "this", "x" }

NoSlotLocal == [ chosen |-> FALSE, registersSize |-> 0, insSize |-> 0,
                 reg |-> 0, name |-> "x" ]
NoSlotRun == [ stage |-> "none", reported |-> 0, requested |-> 0,
               resolved |-> 0 ]

InitSlot ==
    /\ slotLocal = NoSlotLocal
    /\ slotRun = NoSlotRun


\* ---- debugger: array windows ----
MaxArrayLen == 2

IntMax == 2147483647
IntMin == (-2147483647) - 1

\* indexes and counts next to zero and next to the ends of int
WindowInts == ((-2)..(MaxArrayLen + 1)) \cup { IntMin, IntMax - 1, IntMax }

\* element kinds: references, and primitives of width 1 and 4
ArrayKinds == { "object", "byte", "int" }

NoArrReq == [ chosen |-> FALSE, kind |-> "object", length |-> 0,
              firstIndex |-> 0, count |-> 0 ]
NoArrRun == [ stage |-> "none", op |-> "none", result |-> FALSE,
              first |-> 0, touched |-> 0, wild |-> FALSE ]

InitArr ==
    /\ arrReq = NoArrReq
    /\ arrRun = NoArrRun


\* ---- XML parser: one parse call ----
MaxParseDepth == 1

\* what goes wrong inside a callback that makes its strings with
\* NewStringUTF: nothing, an allocation, or the listener throwing
DeclFaults == { "none", "alloc", "throws" }

\* what goes wrong inside bufferAndInvoke: nothing, ensureCapacity, or the
\* listener throwing
BufferFaults == { "none", "grow", "throws" }

\* the DOCTYPE name, public id, system id and the target of a processing
\* instruction: all "h"
DtdName == << 104 >>
DtdPublicId == << 104 >>
DtdSystemId == << 104 >>
PiTarget == << 104 >>

\* the UTF-16 units of a run of character data
TextUnits == 1

NoParseCtx == [ env |-> FALSE, object |-> FALSE, stage |-> "idle",
                threw |-> FALSE ]
NoParseLog == [ entered |-> "none", pending |-> FALSE, fed |-> FALSE,
                unbuffered |-> FALSE ]

InitParse ==
    /\ parseCtx = NoParseCtx
    /\ parseLog = NoParseLog


\* ---- debugger: posted events ----
\* pcOffset and throwRelPc; a catch address below zero is "not caught"
RelPcs == { 5 }
CatchRelPcs == { -1, 0 }

\* method pointers; a MethodId is the pointer
PostMethods == { 1 }

\* the class object at the lowest address is an interface (which declares
\* no instance method that could run, but may have a static initializer)
InterfaceClasses == { MinObjAddr + ObjAlign }

\* memset(&catchLoc, 0, sizeof(catchLoc)); the zero type tag is written "0",
\* it is neither TT_CLASS nor TT_INTERFACE
ZeroLocation == [ typeTag |-> "0", classId |-> ZeroId, methodId |-> 0,
                  idx |-> 0 ]

NoPostEvent == [ kind |-> "none", clazz |-> NULL, thisPtr |-> NULL,
                 exception |-> NULL, catchRelPc |-> 0, delivered |-> FALSE,
                 connected |-> FALSE, before |-> {} ]
NoPostSent == [ loc |-> ZeroLocation, catchLoc |-> ZeroLocation,
                thisId |-> ZeroId, exceptionId |-> ZeroId,
                exceptionClassId |-> ZeroId ]

InitPost ==
    /\ postEvent = NoPostEvent
    /\ postSent = NoPostSent


\* ---- DEX index tables: proto_ids, field_ids, method_ids ----
MaxIds == 2

\* the type, string and proto indexes the entries of a table choose from
IdxRange == { 0, 1 }

\* the parameter type lists of the protos; << >> is parametersOff = 0
ParamLists ==
    { << >>, << 0 >>, << 1 >>, << 0, 0 >>, << 0, 1 >>, << 1, 0 >>,
      << 1, 1 >> }

ProtoItems == [ returnTypeIdx : IdxRange, params : ParamLists ]
FieldItems == [ classIdx : IdxRange, nameIdx : IdxRange, typeIdx : IdxRange ]
MethodItems ==
    [ classIdx : IdxRange, nameIdx : IdxRange, protoIdx : IdxRange ]

NoIdTable == [ kind |-> "none", items |-> << >> ]

\* next: the items the section iteration has accepted; descOk: whether the
\* descriptor and name checks of the item visited last passed
NoIdRun == [ next |-> 0, done |-> FALSE, okay |-> FALSE,
             failedAt |-> "none", descOk |-> TRUE ]

InitIds ==
    /\ idTable = NoIdTable
    /\ idRun = NoIdRun


\* ---- DEX class_defs section ----
MaxDefs == 2

\* pDefinedClassBits == NULL
NoBits == "NULL"

NoDefFile == [ loaded |-> FALSE, bytes |-> << >>, count |-> 0,
               classTypes |-> {} ]

\* stage: the pass the call is in; next: the items the cross-item iteration
\* has accepted; calls: the calls of dexFixByteOrdering on the file
NoDefRun == [ stage |-> "none", next |-> 0, done |-> FALSE, okay |-> FALSE,
              failedAt |-> "none", buf |-> << >>, bits |-> NoBits,
              pDataMap |-> NoDataMap, calls |-> 0 ]

InitDefs ==
    /\ defFile = NoDefFile
    /\ defRun = NoDefRun


\* ---- debugger: the addresses of a source line ----
MaxLineEntries == 3

\* instruction offsets of position entries, sizes of methods in code units,
\* and line numbers
LineAddrs == 0..4
InsnsSizes == { 0, 2, 4 }
LineNums == { 1, 2 }

NoLineReq == [ entries |-> << >>, line |-> 0, insnsSize |-> 0 ]

\* context: the AddressSetContext; set: the offsets whose bit is on; next:
\* the position entries decoded so far
NoLineRun == [ stage |-> "none",
               context |-> [ lastAddressValid |-> FALSE, lastAddress |-> 0 ],
               set |-> {}, next |-> 0 ]

InitLine ==
    /\ lineReq = NoLineReq
    /\ lineRun = NoLineRun


\* ---- debugger: the frames of a thread ----
MaxFrames == 3
\* how many threads gDvm.threadList has
ThreadCounts == { 1, 2 }

\* the thread objects of the threads in gDvm.threadList, and a thread object
\* of no thread
ListedThreadObjs == { MinObjAddr + ObjAlign, MinObjAddr + 2 * ObjAlign }
StrayThreadObj == MinObjAddr + 3 * ObjAlign

\* a chain of frames from curFrame along prevFrame, each a break frame or not
FrameChains == UNION { [ 1..n -> BOOLEAN ] : n \in 0..MaxFrames }

NoFrameCall == [ op |-> "none", threadId |-> 0, num |-> 0, result |-> 0 ]

InitFrames ==
    /\ threadList = << >>
    /\ frameCall = NoFrameCall

InitOther ==
    /\ InitAttrs
    /\ InitDex
    /\ InitClass
    /\ InitCode
    /\ InitString
    /\ InitSlot
    /\ InitArr
    /\ InitParse
    /\ InitPost
    /\ InitIds
    /\ InitDefs
    /\ InitLine
    /\ InitFrames

InitXml == InitIntern /\ InitNames /\ InitOther

(***************************************************************************)
(* Registry: initial state (before dvmDebuggerStartup).                    *)
(***************************************************************************)
InitRegistry ==
    /\ registryAlloc = FALSE
    /\ dbgRegistry = {}
    /\ debuggerConnected = FALSE
    /\ debuggerActive = FALSE
    /\ regLock = NoThread
    /\ pc = [ t \in RegThreads |-> "idle" ]
    /\ regArg = [ t \in RegThreads |-> NoArg ]
    /\ regFound = FALSE
    /\ marked = {}
    /\ markCursor = 0
    /\ InitThreads
    /\ InitXml

\* dvmDebuggerStartup: gDvm.dbgRegistry = dvmHashTableCreate(1000, NULL)
dvmDebuggerStartup ==
    /\ ~registryAlloc
    /\ \A t \in RegThreads : pc[t] = "idle"
    /\ registryAlloc' = TRUE
    /\ dbgRegistry' = {}
    /\ UNCHANGED << debuggerConnected, debuggerActive, regLock, pc, regArg,
                    regFound, marked, markCursor >>
    /\ UNCHANGED regFrame

(***************************************************************************)
(* registerObject(obj, type, reg), one step per lock operation and table   *)
(* access.                                                                 *)
(***************************************************************************)
\* the ObjectId returned: 0 for NULL, else address and type packed
registerObject_Id(obj, type) ==
    IF obj = NULL THEN ZeroId ELSE PackId(obj, type)

\* entry: a NULL object, or reg = false, returns without touching the table
registerObject_Call(t) ==
    /\ pc[t] = "idle"
    /\ registryAlloc
    /\ \E obj \in ObjAddrs \cup { NULL }, type \in RegistryTypes, reg \in BOOLEAN :
          IF obj = NULL \/ ~reg
          THEN UNCHANGED << pc, regArg >>
          ELSE /\ regArg' = [ regArg EXCEPT
                                ![t] = [ obj |-> obj, type |-> type, reg |-> reg ] ]
               /\ pc' = [ pc EXCEPT ![t] = "regLock" ]
    /\ UNCHANGED << registryAlloc, dbgRegistry, debuggerConnected,
                    debuggerActive, regLock, regFound, marked, markCursor >>
    /\ UNCHANGED regFrame

\* mutant: the insert path does not take the registry lock
registerObject_Lock_Skipped(t) ==
    /\ pc[t] = "regLock"
    /\ pc' = [ pc EXCEPT ![t] = "regCheck" ]
    /\ UNCHANGED << registryAlloc, dbgRegistry, debuggerConnected,
                    debuggerActive, regLock, regArg, regFound, marked,
                    markCursor >>
    /\ UNCHANGED regFrame

\* dvmHashTableLock(gDvm.dbgRegistry)
registerObject_Lock(t) ==
    /\ pc[t] = "regLock"
    /\ regLock = NoThread
    /\ regLock' = t
    /\ pc' = [ pc EXCEPT ![t] = "regCheck" ]
    /\ UNCHANGED << registryAlloc, dbgRegistry, debuggerConnected,
                    debuggerActive, regArg, regFound, marked,
                    markCursor >>
    /\ UNCHANGED regFrame

\* mutant: the insert is made whether or not a debugger is connected
registerObject_Check_Always(t) ==
    /\ pc[t] = "regCheck"
    /\ pc' = [ pc EXCEPT ![t] = "regInsert" ]
    /\ UNCHANGED << registryAlloc, dbgRegistry, debuggerConnected,
                    debuggerActive, regLock, regArg, regFound, marked,
                    markCursor >>
    /\ UNCHANGED regFrame

\* if (!gDvm.debuggerConnected) goto bail;
registerObject_Check(t) ==
    /\ pc[t] = "regCheck"
    /\ pc' = [ pc EXCEPT ![t] = IF ~debuggerConnected THEN "regUnlock"
                                                      ELSE "regInsert" ]
    /\ UNCHANGED << registryAlloc, dbgRegistry, debuggerConnected,
                    debuggerActive, regLock, regArg, regFound, marked,
                    markCursor >>
    /\ UNCHANGED regFrame

\* (void) dvmHashTableLookup(..., (void*)(u4) id, registryCompare, true)
registerObject_Insert(t) ==
    /\ pc[t] = "regInsert"
    /\ dbgRegistry' = HashAdd(dbgRegistry,
                              registerObject_Id(regArg[t].obj, regArg[t].type))
    /\ pc' = [ pc EXCEPT ![t] = "regUnlock" ]
    /\ UNCHANGED << registryAlloc, debuggerConnected, debuggerActive, regLock,
                    regArg, regFound, marked, markCursor >>
    /\ UNCHANGED regFrame

\* bail: dvmHashTableUnlock(gDvm.dbgRegistry); return id;
registerObject_Unlock(t) ==
    /\ pc[t] = "regUnlock"
    /\ regLock' = IF regLock = t THEN NoThread ELSE regLock
    /\ regArg' = [ regArg EXCEPT ![t] = NoArg ]
    /\ pc' = [ pc EXCEPT ![t] = "idle" ]
    /\ UNCHANGED << registryAlloc, dbgRegistry, debuggerConnected,
                    debuggerActive, regFound, marked, markCursor >>
    /\ UNCHANGED regFrame

(***************************************************************************)
(* objectIsRegistered(id, type).                                           *)
(***************************************************************************)
\* entry: id == 0 is always "registered"
objectIsRegistered_Call(t) ==
    /\ pc[t] = "idle"
    /\ registryAlloc
    /\ \E obj \in ObjAddrs \cup { NULL }, type \in RegistryTypes :
          IF obj = NULL
          THEN /\ regFound' = TRUE
               /\ UNCHANGED << pc, regArg >>
          ELSE /\ regArg' = [ regArg EXCEPT
                                ![t] = [ obj |-> obj, type |-> type, reg |-> FALSE ] ]
               /\ pc' = [ pc EXCEPT ![t] = "lookLock" ]
               /\ UNCHANGED regFound
    /\ UNCHANGED << registryAlloc, dbgRegistry, debuggerConnected,
                    debuggerActive, regLock, marked, markCursor >>
    /\ UNCHANGED regFrame

objectIsRegistered_Lock(t) ==
    /\ pc[t] = "lookLock"
    /\ regLock = NoThread
    /\ regLock' = t
    /\ pc' = [ pc EXCEPT ![t] = "lookSearch" ]
    /\ UNCHANGED << registryAlloc, dbgRegistry, debuggerConnected,
                    debuggerActive, regArg, regFound, marked,
                    markCursor >>
    /\ UNCHANGED regFrame

\* bool result = lookupId(id);
objectIsRegistered_Search(t) ==
    /\ pc[t] = "lookSearch"
    /\ regFound' = lookupId(PackId(regArg[t].obj, regArg[t].type))
    /\ pc' = [ pc EXCEPT ![t] = "lookUnlock" ]
    /\ UNCHANGED << registryAlloc, dbgRegistry, debuggerConnected,
                    debuggerActive, regLock, regArg, marked,
                    markCursor >>
    /\ UNCHANGED regFrame

objectIsRegistered_Unlock(t) ==
    /\ pc[t] = "lookUnlock"
    /\ regLock' = IF regLock = t THEN NoThread ELSE regLock
    /\ regArg' = [ regArg EXCEPT ![t] = NoArg ]
    /\ pc' = [ pc EXCEPT ![t] = "idle" ]
    /\ UNCHANGED << registryAlloc, dbgRegistry, debuggerConnected,
                    debuggerActive, regFound, marked, markCursor >>
    /\ UNCHANGED regFrame

(***************************************************************************)
(* dvmGcMarkDebuggerRefs: the collector's root-marking pass.  The table is  *)
(* walked slot by slot in index order (dvmHashForeach); an entry is marked  *)
(* when the walk passes its slot.                                           *)
(***************************************************************************)
\* the slots the walk has not passed yet
SlotsAhead == { a \in ObjAddrs : a > markCursor }

NextSlot == CHOOSE a \in SlotsAhead : \A b \in SlotsAhead : a <= b

\* mutant: the mark pass starts its walk without taking the registry lock
dvmGcMarkDebuggerRefs_NoLock ==
    /\ pc[Collector] = "idle"
    /\ IF ~registryAlloc
       THEN UNCHANGED << pc, marked, markCursor >>
       ELSE /\ marked' = {}
            /\ markCursor' = 0
            /\ pc' = [ pc EXCEPT ![Collector] = "gcIter" ]
    /\ UNCHANGED << registryAlloc, dbgRegistry, debuggerConnected,
                    debuggerActive, regLock, regArg, regFound >>
    /\ UNCHANGED regFrame

\* if (gDvm.dbgRegistry != NULL) { dvmHashTableLock(...)
dvmGcMarkDebuggerRefs_Lock ==
    /\ pc[Collector] = "idle"
    /\ IF ~registryAlloc
       THEN UNCHANGED << regLock, pc, marked, markCursor >>
       ELSE /\ regLock = NoThread
            /\ regLock' = Collector
            /\ marked' = {}
            /\ markCursor' = 0
            /\ pc' = [ pc EXCEPT ![Collector] = "gcIter" ]
    /\ UNCHANGED << registryAlloc, dbgRegistry, debuggerConnected,
                    debuggerActive, regArg, regFound >>
    /\ UNCHANGED regFrame

\* dvmHashForeach(gDvm.dbgRegistry, markRef, NULL): one slot per step
dvmGcMarkDebuggerRefs_Iter ==
    /\ pc[Collector] = "gcIter"
    /\ IF SlotsAhead = {}
       THEN /\ pc' = [ pc EXCEPT ![Collector] = "gcUnlock" ]
            /\ UNCHANGED << marked, markCursor >>
       ELSE /\ marked' = IF NextSlot \in dbgRegistry
                         THEN marked \cup { NextSlot }
                         ELSE marked
            /\ markCursor' = NextSlot
            /\ UNCHANGED pc
    /\ UNCHANGED << registryAlloc, dbgRegistry, debuggerConnected,
                    debuggerActive, regLock, regArg, regFound >>
    /\ UNCHANGED regFrame

\* dvmHashTableUnlock(gDvm.dbgRegistry)
dvmGcMarkDebuggerRefs_Unlock ==
    /\ pc[Collector] = "gcUnlock"
    /\ regLock' = IF regLock = Collector THEN NoThread ELSE regLock
    /\ pc' = [ pc EXCEPT ![Collector] = "idle" ]
    /\ UNCHANGED << registryAlloc, dbgRegistry, debuggerConnected,
                    debuggerActive, regArg, regFound, marked,
                    markCursor >>
    /\ UNCHANGED regFrame

(***************************************************************************)
(* Session lifecycle, JDWP handler thread only.                            *)
(***************************************************************************)
\* assert(!gDvm.debuggerConnected);
\* assert(dvmHashTableNumEntries(gDvm.dbgRegistry) == 0);
dvmDbgConnected_Assert ==
    /\ pc[Handler] = "idle"
    /\ registryAlloc
    /\ ~debuggerConnected
    /\ pc' = [ pc EXCEPT ![Handler] = IF Cardinality(dbgRegistry) = 0
                                      THEN "connSet"
                                      ELSE "aborted" ]
    /\ UNCHANGED << registryAlloc, dbgRegistry, debuggerConnected,
                    debuggerActive, regLock, regArg, regFound, marked,
                    markCursor >>
    /\ UNCHANGED regFrame

\* gDvm.debuggerConnected = true;
dvmDbgConnected_Set ==
    /\ pc[Handler] = "connSet"
    /\ debuggerConnected' = TRUE
    /\ pc' = [ pc EXCEPT ![Handler] = "idle" ]
    /\ UNCHANGED << registryAlloc, dbgRegistry, debuggerActive, regLock,
                    regArg, regFound, marked, markCursor >>
    /\ UNCHANGED regFrame

\* if (gDvm.debuggerActive) return; ... gDvm.debuggerActive = true;
dvmDbgActive ==
    /\ pc[Handler] = "idle"
    /\ debuggerConnected
    /\ debuggerActive' = TRUE
    /\ UNCHANGED << registryAlloc, dbgRegistry, debuggerConnected, regLock, pc,
                    regArg, regFound, marked, markCursor >>
    /\ UNCHANGED regFrame

\* assert(gDvm.debuggerConnected); gDvm.debuggerActive = false;
dvmDbgDisconnected_Begin ==
    /\ pc[Handler] = "idle"
    /\ debuggerConnected
    /\ debuggerActive' = FALSE
    /\ pc' = [ pc EXCEPT ![Handler] = "discLock" ]
    /\ UNCHANGED << registryAlloc, dbgRegistry, debuggerConnected, regLock,
                    regArg, regFound, marked, markCursor >>
    /\ UNCHANGED regFrame

\* dvmHashTableLock(gDvm.dbgRegistry);
dvmDbgDisconnected_Lock ==
    /\ pc[Handler] = "discLock"
    /\ regLock = NoThread
    /\ regLock' = Handler
    /\ pc' = [ pc EXCEPT ![Handler] = "discFlag" ]
    /\ UNCHANGED << registryAlloc, dbgRegistry, debuggerConnected,
                    debuggerActive, regArg, regFound, marked,
                    markCursor >>
    /\ UNCHANGED regFrame

\* gDvm.debuggerConnected = false;
dvmDbgDisconnected_Flag ==
    /\ pc[Handler] = "discFlag"
    /\ debuggerConnected' = FALSE
    /\ pc' = [ pc EXCEPT ![Handler] = "discClear" ]
    /\ UNCHANGED << registryAlloc, dbgRegistry, debuggerActive, regLock,
                    regArg, regFound, marked, markCursor >>
    /\ UNCHANGED regFrame

\* mutant: the table is not cleared on disconnect
dvmDbgDisconnected_NoClear ==
    /\ pc[Handler] = "discClear"
    /\ pc' = [ pc EXCEPT ![Handler] = "discUnlock" ]
    /\ UNCHANGED << registryAlloc, dbgRegistry, debuggerConnected,
                    debuggerActive, regLock, regArg, regFound, marked,
                    markCursor >>
    /\ UNCHANGED regFrame

\* dvmHashTableClear(gDvm.dbgRegistry);
dvmDbgDisconnected_Clear ==
    /\ pc[Handler] = "discClear"
    /\ dbgRegistry' = {}
    /\ pc' = [ pc EXCEPT ![Handler] = "discUnlock" ]
    /\ UNCHANGED << registryAlloc, debuggerConnected, debuggerActive, regLock,
                    regArg, regFound, marked, markCursor >>
    /\ UNCHANGED regFrame

\* dvmHashTableUnlock(gDvm.dbgRegistry); and the function returns
dvmDbgDisconnected_Unlock ==
    /\ pc[Handler] = "discUnlock"
    /\ regLock' = IF regLock = Handler THEN NoThread ELSE regLock
    /\ pc' = [ pc EXCEPT ![Handler] = "discRet" ]
    /\ UNCHANGED << registryAlloc, dbgRegistry, debuggerConnected,
                    debuggerActive, regArg, regFound, marked,
                    markCursor >>
    /\ UNCHANGED regFrame

\* the handler thread goes on after dvmDbgDisconnected has returned
HandlerResume ==
    /\ pc[Handler] = "discRet"
    /\ pc' = [ pc EXCEPT ![Handler] = "idle" ]
    /\ UNCHANGED << registryAlloc, dbgRegistry, debuggerConnected,
                    debuggerActive, regLock, regArg, regFound, marked,
                    markCursor >>
    /\ UNCHANGED regFrame

NextRegistry ==
    \/ dvmDebuggerStartup
    \/ \E t \in Mutators :
         \/ registerObject_Call(t)
         \/ registerObject_Lock(t)
         \/ registerObject_Check(t)
         \/ registerObject_Insert(t)
         \/ registerObject_Unlock(t)
    \/ objectIsRegistered_Call(Handler)
    \/ objectIsRegistered_Lock(Handler)
    \/ objectIsRegistered_Search(Handler)
    \/ objectIsRegistered_Unlock(Handler)
    \/ dvmGcMarkDebuggerRefs_Lock
    \/ dvmGcMarkDebuggerRefs_Iter
    \/ dvmGcMarkDebuggerRefs_Unlock
    \/ dvmDbgConnected_Assert
    \/ dvmDbgConnected_Set
    \/ dvmDbgActive
    \/ dvmDbgDisconnected_Begin
    \/ dvmDbgDisconnected_Lock
    \/ dvmDbgDisconnected_Flag
    \/ dvmDbgDisconnected_Clear
    \/ dvmDbgDisconnected_Unlock
    \/ HandlerResume

SpecRegistry == InitRegistry /\ [][NextRegistry]_vars

(***************************************************************************)
(* The runtime's suspend/resume primitives (Thread.c): the per-thread      *)
(* counter is incremented on each suspend request and decremented on each  *)
(* resume request; a thread is suspended whenever its counter is positive. *)
(***************************************************************************)
dvmSuspendThread(sc, t) == [ sc EXCEPT ![t] = @ + 1 ]

dvmResumeThread(sc, t) == [ sc EXCEPT ![t] = @ - 1 ]

dvmSuspendAllThreads(sc) == [ t \in VmThreads |-> sc[t] + 1 ]

dvmResumeAllThreads(sc) == [ t \in VmThreads |-> sc[t] - 1 ]

\* "suspend counter > 0"
IsSuspended(sc, t) == sc[t] > 0

\* registerObject(obj, type, true) run without interruption: lock, insert if
\* a debugger is connected, unlock
RegisterPinned(table, obj, type) ==
    IF obj = NULL \/ ~debuggerConnected
    THEN table
    ELSE HashAdd(table, registerObject_Id(obj, type))

(***************************************************************************)
(* Execution control requested by the debugger (handler thread).           *)
(***************************************************************************)
dvmDbgSuspendVM ==
    /\ hpc = "idle"
    /\ \A t \in VmThreads : suspendCount[t] < MaxSuspend
    /\ suspendCount' = dvmSuspendAllThreads(suspendCount)
    /\ UNCHANGED << invokeReq, threadStatus, threadException, tpc, lastCall,
                    reqLock, reqSignal, hpc, hCall, hOut, hStatus, preSuspend >>
    /\ UNCHANGED << dbgRegistry, invFrame >>

\* the debugger resumes what it sees suspended
dvmDbgResumeVM ==
    /\ hpc = "idle"
    /\ \A t \in VmThreads : IsSuspended(suspendCount, t)
    /\ suspendCount' = dvmResumeAllThreads(suspendCount)
    /\ UNCHANGED << invokeReq, threadStatus, threadException, tpc, lastCall,
                    reqLock, reqSignal, hpc, hCall, hOut, hStatus, preSuspend >>
    /\ UNCHANGED << dbgRegistry, invFrame >>

dvmDbgSuspendThread(threadId) ==
    /\ hpc = "idle"
    /\ IF threadId \in VmThreads
       THEN /\ suspendCount[threadId] < MaxSuspend
            /\ suspendCount' = dvmSuspendThread(suspendCount, threadId)
       ELSE UNCHANGED suspendCount
    /\ UNCHANGED << invokeReq, threadStatus, threadException, tpc, lastCall,
                    reqLock, reqSignal, hpc, hCall, hOut, hStatus, preSuspend >>
    /\ UNCHANGED << dbgRegistry, invFrame >>

dvmDbgResumeThread(threadId) ==
    /\ hpc = "idle"
    /\ IF threadId \in VmThreads
       THEN /\ IsSuspended(suspendCount, threadId)
            /\ suspendCount' = dvmResumeThread(suspendCount, threadId)
       ELSE UNCHANGED suspendCount
    /\ UNCHANGED << invokeReq, threadStatus, threadException, tpc, lastCall,
                    reqLock, reqSignal, hpc, hCall, hOut, hStatus, preSuspend >>
    /\ UNCHANGED << dbgRegistry, invFrame >>

(***************************************************************************)
(* A VM thread at a debugger event (the event-posting loop of the wire-    *)
(* protocol engine): it marks its request slot ready and suspends itself;  *)
(* when resumed it clears "ready" and, if a request was posted, runs it,   *)
(* clears "needed", signals the handler and suspends itself again.  The    *)
(* engine lets one thread at a time be the event thread, and none while    *)
(* the handler is inside a request.                                        *)
(***************************************************************************)
ThreadPostsEvent(t) ==
    /\ hpc = "idle"
    /\ tpc[t] = "running"
    /\ ~IsSuspended(suspendCount, t)
    /\ \A u \in VmThreads : tpc[u] = "running"
    /\ \E exc \in { NULL, FirstObj } :
          threadException' = [ threadException EXCEPT ![t] = exc ]
    /\ invokeReq' = [ invokeReq EXCEPT ![t].ready = TRUE ]
    /\ suspendCount' = dvmSuspendThread(suspendCount, t)
    /\ threadStatus' = [ threadStatus EXCEPT ![t] = "THREAD_VMWAIT" ]
    /\ tpc' = [ tpc EXCEPT ![t] = "parked" ]
    /\ UNCHANGED << lastCall, reqLock, reqSignal, hpc, hCall, hOut, hStatus,
                    preSuspend >>
    /\ UNCHANGED << dbgRegistry, invFrame >>

ThreadWakes(t) ==
    /\ tpc[t] = "parked"
    /\ ~IsSuspended(suspendCount, t)
    /\ invokeReq' = [ invokeReq EXCEPT ![t].ready = FALSE ]
    /\ IF invokeReq[t].invokeNeeded
       THEN /\ tpc' = [ tpc EXCEPT ![t] = "woken" ]
            /\ UNCHANGED << threadStatus, threadException >>
       ELSE /\ tpc' = [ tpc EXCEPT ![t] = "running" ]
            /\ threadStatus' = [ threadStatus EXCEPT ![t] = "THREAD_RUNNING" ]
            /\ threadException' = [ threadException EXCEPT ![t] = NULL ]
    /\ UNCHANGED << suspendCount, lastCall, reqLock, reqSignal, hpc, hCall,
                    hOut, hStatus, preSuspend >>
    /\ UNCHANGED << dbgRegistry, invFrame >>

(***************************************************************************)
(* dvmDbgExecuteMethod(pReq), run by the target thread.  "exc" and         *)
(* "status" are the thread's pending exception and status on entry;        *)
(* "thrown" and "ret" are what dvmCallMethodA leaves: the exception it     *)
(* raised (or NULL) and the value it stored in pReq->resultValue.          *)
(***************************************************************************)
\* the values a method of the model can store in the result
RetValues(method) ==
    IF ReturnDescriptor(method) = "L" THEN { NULL, FirstObj, SecondObj }
                                      ELSE { 0, 7 }

\* mutant: the result value is left as the call stored it when it threw
dvmDbgExecuteMethod_KeepValue(pReq, exc, status, thrown, ret) ==
    LET meth == IF \/ "INVOKE_NONVIRTUAL" \in pReq.options
                   \/ pReq.obj = NULL
                   \/ dvmIsDirectMethod(pReq.method)
                THEN pReq.method
                ELSE dvmGetVirtualizedMethod(pReq.clazz, pReq.method)
        exceptObj == registerObject_Id(thrown, kObjectId)
    IN  [ req |-> [ pReq EXCEPT !.resultValue = ret,
                               !.exceptObj = exceptObj,
                               !.resultTag = resultTagFromSignature(meth) ],
          exception |-> exc,
          status |-> status,
          afterCall |-> NULL,
          pinned |-> thrown ]

\* mutant: the exception pending on entry is not put back
dvmDbgExecuteMethod_DropExcept(pReq, exc, status, thrown, ret) ==
    LET meth == IF \/ "INVOKE_NONVIRTUAL" \in pReq.options
                   \/ pReq.obj = NULL
                   \/ dvmIsDirectMethod(pReq.method)
                THEN pReq.method
                ELSE dvmGetVirtualizedMethod(pReq.clazz, pReq.method)
        exceptObj == registerObject_Id(thrown, kObjectId)
        threw == exceptObj # ZeroId
    IN  [ req |-> [ pReq EXCEPT !.resultValue = IF threw THEN 0 ELSE ret,
                               !.exceptObj = exceptObj,
                               !.resultTag = resultTagFromSignature(meth) ],
          exception |-> IF threw THEN NULL ELSE thrown,
          status |-> status,
          afterCall |-> NULL,
          pinned |-> thrown ]

dvmDbgExecuteMethod_Body(pReq, exc, status, thrown, ret) ==
    LET \* oldExcept = dvmGetException(self); dvmClearException(self);
        oldExcept == exc
        \* oldStatus = dvmChangeStatus(self, THREAD_RUNNING);
        oldStatus == status
        meth == IF \/ "INVOKE_NONVIRTUAL" \in pReq.options
                   \/ pReq.obj = NULL
                   \/ dvmIsDirectMethod(pReq.method)
                THEN pReq.method
                ELSE dvmGetVirtualizedMethod(pReq.clazz, pReq.method)
        \* dvmCallMethodA(self, meth, pReq->obj, false, &pReq->resultValue, ..)
        callExcept == thrown
        callValue == ret
        \* pReq->exceptObj = objectToObjectId(dvmGetException(self));
        exceptObj == registerObject_Id(callExcept, kObjectId)
        declTag == resultTagFromSignature(meth)
        threw == exceptObj # ZeroId
        \* dvmClearException(self); pReq->resultValue.j = 0;
        exceptAfter == IF threw THEN NULL ELSE callExcept
        value == IF threw THEN 0 ELSE callValue
        \* else if (pReq->resultTag == JT_OBJECT) { newTag = ... }
        tag == IF ~threw /\ declTag = "JT_OBJECT"
               THEN LET newTag == resultTagFromObject(callValue)
                    IN  IF newTag # declTag THEN newTag ELSE declTag
               ELSE declTag
    IN  [ req |-> [ pReq EXCEPT !.resultValue = value,
                               !.exceptObj = exceptObj,
                               !.resultTag = tag ],
          \* if (oldExcept != NULL) dvmSetException(self, oldExcept);
          exception |-> IF oldExcept # NULL THEN oldExcept ELSE exceptAfter,
          \* dvmChangeStatus(self, oldStatus);
          status |-> oldStatus,
          \* the exception pending before the old one is put back
          afterCall |-> exceptAfter,
          \* the object objectToObjectId registers
          pinned |-> callExcept ]

dvmDbgExecuteMethod(t) ==
    /\ tpc[t] = "woken"
    /\ \E thrown \in { NULL, SecondObj }, ret \in RetValues(invokeReq[t].method) :
         LET out == dvmDbgExecuteMethod_Body(invokeReq[t], threadException[t],
                                             threadStatus[t], thrown, ret)
         IN  /\ invokeReq' = [ invokeReq EXCEPT ![t] = out.req ]
             /\ threadException' = [ threadException EXCEPT ![t] = out.exception ]
             /\ threadStatus' = [ threadStatus EXCEPT ![t] = out.status ]
             /\ dbgRegistry' = RegisterPinned(dbgRegistry, out.pinned, kObjectId)
             /\ lastCall' = [ lastCall EXCEPT
                                ![t] = [ thrown |-> thrown, ret |-> ret,
                                         pending |-> out.afterCall ] ]
    /\ tpc' = [ tpc EXCEPT ![t] = "executed" ]
    /\ UNCHANGED << suspendCount, reqLock, reqSignal, hpc, hCall, hOut,
                    hStatus, preSuspend >>
    /\ UNCHANGED invFrame

\* after dvmDbgExecuteMethod: pReq->err = ERR_NONE; pReq->invokeNeeded = false;
ThreadCompletes(t) ==
    /\ tpc[t] = "executed"
    /\ invokeReq' = [ invokeReq EXCEPT ![t].err = "ERR_NONE",
                                       ![t].invokeNeeded = FALSE ]
    /\ tpc' = [ tpc EXCEPT ![t] = "cleared" ]
    /\ lastCall' = [ lastCall EXCEPT ![t] = NoOutcome ]
    /\ UNCHANGED << suspendCount, threadStatus, threadException,
                    reqLock, reqSignal, hpc, hCall, hOut, hStatus, preSuspend >>
    /\ UNCHANGED << dbgRegistry, invFrame >>

\* lock pReq->lock; signal pReq->cv; unlock
ThreadSignals(t) ==
    /\ tpc[t] = "cleared"
    /\ reqLock[t] = NoThread
    /\ reqSignal' = [ reqSignal EXCEPT
                        ![t] = hpc = "condWait" /\ hCall.thread = t ]
    /\ tpc' = [ tpc EXCEPT ![t] = "signalled" ]
    /\ UNCHANGED << suspendCount, invokeReq, threadStatus, threadException,
                    lastCall, reqLock, hpc, hCall, hOut, hStatus, preSuspend >>
    /\ UNCHANGED << dbgRegistry, invFrame >>

\* back at the top of the loop: pReq->ready = true; dvmDbgSuspendSelf();
ThreadResuspends(t) ==
    /\ tpc[t] = "signalled"
    /\ invokeReq' = [ invokeReq EXCEPT ![t].ready = TRUE ]
    /\ suspendCount' = dvmSuspendThread(suspendCount, t)
    /\ tpc' = [ tpc EXCEPT ![t] = "parked" ]
    /\ UNCHANGED << threadStatus, threadException, lastCall, reqLock, reqSignal,
                    hpc, hCall, hOut, hStatus, preSuspend >>
    /\ UNCHANGED << dbgRegistry, invFrame >>

(***************************************************************************)
(* dvmDbgInvokeMethod, run by the JDWP handler thread.                     *)
(***************************************************************************)
\* mutant: a suspend count of 2 is still accepted
InvokeReject_Deeper(found, ready, count) ==
    IF ~found THEN "ERR_INVALID_THREAD"
    ELSE IF ~ready THEN "ERR_INVALID_THREAD"
    ELSE IF count > 2 THEN "ERR_THREAD_SUSPENDED"
    ELSE "ERR_NONE"

\* mutant: a thread that is not stopped at an event gets a code of its own
InvokeReject_OwnCode(found, ready, count) ==
    IF ~found THEN "ERR_INVALID_THREAD"
    ELSE IF ~ready THEN "ERR_THREAD_NOT_SUSPENDED"
    ELSE IF count > 1 THEN "ERR_THREAD_SUSPENDED"
    ELSE "ERR_NONE"

\* the checks made under the thread list lock, in the order of the code
InvokeReject(found, ready, count) ==
    IF ~found THEN "ERR_INVALID_THREAD"         \* thread does not exist
    ELSE IF ~ready THEN "ERR_INVALID_THREAD"    \* thread not stopped by event
    ELSE IF count > 1 THEN "ERR_THREAD_SUSPENDED"
    ELSE "ERR_NONE"

\* threadObjToThread(threadObj) != NULL
ThreadFound(threadId) == threadId \in VmThreads

\* entry, checks and posting of the request, all under the thread list lock
dvmDbgInvokeMethod_Post ==
    /\ hpc = "idle"
    /\ \E threadId \in ThreadIds, obj \in { NULL, FirstObj },
          method \in Methods, options \in InvokeOptions :
         LET found == ThreadFound(threadId)
             err == InvokeReject(found,
                                 found /\ invokeReq[threadId].ready,
                                 IF found THEN suspendCount[threadId] ELSE 0)
         IN  /\ hCall' = [ thread |-> threadId, obj |-> obj, method |-> method,
                           options |-> options, oldStatus |-> hStatus ]
             /\ IF err # "ERR_NONE"
                THEN /\ hOut' = [ hOut EXCEPT !.err = err ]
                     /\ hpc' = "rejected"
                     /\ UNCHANGED << invokeReq, preSuspend >>
                ELSE /\ invokeReq' =
                          [ invokeReq EXCEPT ![threadId].obj = obj,
                                             ![threadId].thread = threadId,
                                             ![threadId].clazz = NULL,
                                             ![threadId].method = method,
                                             ![threadId].numArgs = 0,
                                             ![threadId].options = options,
                                             ![threadId].invokeNeeded = TRUE ]
                     /\ preSuspend' = suspendCount
                     /\ hpc' = "resume"
                     /\ UNCHANGED hOut
    /\ UNCHANGED << suspendCount, threadStatus, threadException, tpc, lastCall,
                    reqLock, reqSignal, hStatus >>
    /\ UNCHANGED << dbgRegistry, invFrame >>

\* dvmChangeStatus(self, THREAD_VMWAIT); dvmLockMutex(&invokeReq.lock);
\* then resume the whole VM, or the target thread only
dvmDbgInvokeMethod_Resume ==
    /\ hpc = "resume"
    /\ reqLock[hCall.thread] = NoThread
    /\ hStatus' = "THREAD_VMWAIT"
    /\ reqLock' = [ reqLock EXCEPT ![hCall.thread] = Handler ]
    /\ suspendCount' = IF "INVOKE_SINGLE_THREADED" \notin hCall.options
                       THEN dvmResumeAllThreads(suspendCount)
                       ELSE dvmResumeThread(suspendCount, hCall.thread)
    /\ hpc' = "wait"
    /\ UNCHANGED << invokeReq, threadStatus, threadException, tpc, lastCall,
                    reqSignal, hCall, hOut, preSuspend >>
    /\ UNCHANGED << dbgRegistry, invFrame >>

\* mutant: the handler goes on without waiting for the request to finish
dvmDbgInvokeMethod_NoWait ==
    /\ hpc = "wait"
    /\ reqLock' = [ reqLock EXCEPT ![hCall.thread] = NoThread ]
    /\ hpc' = "resuspend"
    /\ UNCHANGED << suspendCount, invokeReq, threadStatus, threadException,
                    tpc, lastCall, reqSignal, hCall, hOut, hStatus, preSuspend >>
    /\ UNCHANGED << dbgRegistry, invFrame >>

\* while (invokeReq.invokeNeeded) pthread_cond_wait(...); dvmUnlockMutex(...)
dvmDbgInvokeMethod_WaitCheck ==
    /\ hpc = "wait"
    /\ reqLock' = [ reqLock EXCEPT ![hCall.thread] = NoThread ]
    /\ hpc' = IF invokeReq[hCall.thread].invokeNeeded THEN "condWait"
                                                       ELSE "waitSuspend"
    /\ UNCHANGED << suspendCount, invokeReq, threadStatus, threadException,
                    tpc, lastCall, reqSignal, hCall, hOut, hStatus, preSuspend >>
    /\ UNCHANGED << dbgRegistry, invFrame >>

\* pthread_cond_wait returns: signalled, and the mutex taken again
dvmDbgInvokeMethod_CondWake ==
    /\ hpc = "condWait"
    /\ reqSignal[hCall.thread]
    /\ reqLock[hCall.thread] = NoThread
    /\ reqLock' = [ reqLock EXCEPT ![hCall.thread] = Handler ]
    /\ reqSignal' = [ reqSignal EXCEPT ![hCall.thread] = FALSE ]
    /\ hpc' = "wait"
    /\ UNCHANGED << suspendCount, invokeReq, threadStatus, threadException,
                    tpc, lastCall, hCall, hOut, hStatus, preSuspend >>
    /\ UNCHANGED << dbgRegistry, invFrame >>

\* dvmWaitForSuspend(targetThread); dvmChangeStatus(self, oldStatus);
dvmDbgInvokeMethod_WaitForSuspend ==
    /\ hpc = "waitSuspend"
    /\ tpc[hCall.thread] = "parked"
    /\ IsSuspended(suspendCount, hCall.thread)
    /\ hStatus' = hCall.oldStatus
    /\ hpc' = "resuspend"
    /\ UNCHANGED << suspendCount, invokeReq, threadStatus, threadException,
                    tpc, lastCall, reqLock, reqSignal, hCall, hOut, preSuspend >>
    /\ UNCHANGED << dbgRegistry, invFrame >>

\* mutant: the target is not resumed after the re-suspend of all threads
InvokeResuspend_NoBalance(sc, target, options) ==
    IF "INVOKE_SINGLE_THREADED" \notin options
    THEN dvmSuspendAllThreads(sc)
    ELSE sc

\* if ((options & INVOKE_SINGLE_THREADED) == 0) {
\*     dvmSuspendAllThreads(...); dvmResumeThread(targetThread); }
InvokeResuspend(sc, target, options) ==
    IF "INVOKE_SINGLE_THREADED" \notin options
    THEN dvmResumeThread(dvmSuspendAllThreads(sc), target)
    ELSE sc

\* re-suspend, then read the result back and return
dvmDbgInvokeMethod_Finish ==
    /\ hpc = "resuspend"
    /\ suspendCount' = InvokeResuspend(suspendCount, hCall.thread, hCall.options)
    /\ LET req == invokeReq[hCall.thread]
           primitive == isTagPrimitive(req.resultTag)
       IN  /\ hOut' = [ err |-> req.err,
                        resultTag |-> req.resultTag,
                        resultValue |->
                            IF primitive
                            THEN [ hi |-> 0, lo |-> req.resultValue ]
                            ELSE registerObject_Id(req.resultValue, kObjectId),
                        exceptObj |-> req.exceptObj ]
           /\ dbgRegistry' = IF primitive
                             THEN dbgRegistry
                             ELSE RegisterPinned(dbgRegistry, req.resultValue,
                                                 kObjectId)
    /\ hpc' = "done"
    /\ UNCHANGED << invokeReq, threadStatus, threadException, tpc, lastCall,
                    reqLock, reqSignal, hCall, hStatus, preSuspend >>
    /\ UNCHANGED invFrame

\* the handler goes on with the next request
dvmDbgInvokeMethod_Return ==
    /\ hpc \in { "done", "rejected" }
    /\ hpc' = "idle"
    /\ hCall' = NoCall
    /\ hOut' = NoOut
    /\ preSuspend' = [ t \in VmThreads |-> 0 ]
    /\ UNCHANGED << suspendCount, invokeReq, threadStatus, threadException,
                    tpc, lastCall, reqLock, reqSignal, hStatus >>
    /\ UNCHANGED << dbgRegistry, invFrame >>

(***************************************************************************)
(* Invocation: a debugger is attached and active, all threads running.     *)
(***************************************************************************)
InitInvoke ==
    /\ registryAlloc = TRUE
    /\ dbgRegistry = {}
    /\ debuggerConnected = TRUE
    /\ debuggerActive = TRUE
    /\ regLock = NoThread
    /\ pc = [ t \in RegThreads |-> "idle" ]
    /\ regArg = [ t \in RegThreads |-> NoArg ]
    /\ regFound = FALSE
    /\ marked = {}
    /\ markCursor = 0
    /\ InitThreads
    /\ InitXml

NextInvoke ==
    \/ dvmDbgSuspendVM
    \/ dvmDbgResumeVM
    \/ \E threadId \in ThreadIds :
         \/ dvmDbgSuspendThread(threadId)
         \/ dvmDbgResumeThread(threadId)
    \/ \E t \in EventThreads : ThreadPostsEvent(t)
    \/ \E t \in VmThreads :
         \/ ThreadWakes(t)
         \/ dvmDbgExecuteMethod(t)
         \/ ThreadCompletes(t)
         \/ ThreadSignals(t)
         \/ ThreadResuspends(t)
    \/ dvmDbgInvokeMethod_Post
    \/ dvmDbgInvokeMethod_Resume
    \/ dvmDbgInvokeMethod_WaitCheck
    \/ dvmDbgInvokeMethod_CondWake
    \/ dvmDbgInvokeMethod_WaitForSuspend
    \/ dvmDbgInvokeMethod_Finish
    \/ dvmDbgInvokeMethod_Return

SpecInvoke == InitInvoke /\ [][NextInvoke]_vars

(***************************************************************************)
(* internString and its helpers.  "failAt" names the allocation or JNI     *)
(* step that fails in this call, should the call reach it; "pending" is    *)
(* env->ExceptionCheck() on entry.                                         *)
(***************************************************************************)
\* mutant: the bytes are not compared, the hash decides
findInternedString_HashOnly(bucket, s, hash) ==
    LET hits == { i \in 1..Len(bucket) : bucket[i].hash = hash }
    IN  IF hits = {} THEN NoHandle
        ELSE bucket[CHOOSE i \in hits : \A j \in hits : i <= j].interned

\* the first entry of the bucket with this hash and these bytes
findInternedString(bucket, s, hash) ==
    LET hits == { i \in 1..Len(bucket) :
                    bucket[i].hash = hash /\ bucket[i].bytes = s }
    IN  IF hits = {} THEN NoHandle
        ELSE bucket[CHOOSE i \in hits : \A j \in hits : i <= j].interned

\* mutant: the exception check after the call of intern() is missing
newInternedString_NoCheck(refs, pending, bytes, hash, failAt) ==
    IF failAt = "wrapper" THEN [ entry |-> NoEntry, fault |-> TRUE, refs |-> refs ]
    ELSE IF failAt = "copy" THEN [ entry |-> NoEntry, fault |-> TRUE, refs |-> refs ]
    ELSE IF pending \/ failAt = "newString"
    THEN [ entry |-> NoEntry, fault |-> TRUE, refs |-> refs ]
    ELSE IF failAt = "globalRef"
    THEN [ entry |-> NoEntry, fault |-> TRUE, refs |-> refs ]
    ELSE [ entry |-> [ interned |-> [ ref |-> RefsTo(refs, bytes) + 1,
                                      str |-> bytes ],
                       bytes |-> bytes, hash |-> hash ],
           fault |-> failAt = "intern", refs |-> NewGlobalRef(refs, bytes) ]

newInternedString(refs, pending, bytes, hash, failAt) ==
    \* wrapper = malloc(...); if (wrapper == NULL) throw_OutOfMemoryError
    IF failAt = "wrapper" THEN [ entry |-> NoEntry, fault |-> TRUE, refs |-> refs ]
    \* copy = strdup(bytes); if NULL: throw, free(wrapper)
    ELSE IF failAt = "copy" THEN [ entry |-> NoEntry, fault |-> TRUE, refs |-> refs ]
    \* newString = NewStringUTF(bytes); if (env->ExceptionCheck()) ...
    ELSE IF pending \/ failAt = "newString"
    THEN [ entry |-> NoEntry, fault |-> TRUE, refs |-> refs ]
    \* interned = CallObjectMethod(newString, internMethod); ExceptionCheck
    ELSE IF failAt = "intern"
    THEN [ entry |-> NoEntry, fault |-> TRUE, refs |-> refs ]
    \* wrapper->interned = NewGlobalRef(interned); ExceptionCheck
    ELSE IF failAt = "globalRef"
    THEN [ entry |-> NoEntry, fault |-> TRUE, refs |-> refs ]
    ELSE [ entry |-> [ interned |-> [ ref |-> RefsTo(refs, bytes) + 1,
                                      str |-> bytes ],
                       bytes |-> bytes, hash |-> hash ],
           fault |-> FALSE, refs |-> NewGlobalRef(refs, bytes) ]

\* malloc of a two-slot bucket; << >> stands for NULL
newInternedStringBucket(entry, fails) ==
    IF fails THEN << >> ELSE << entry >>

\* realloc to one more slot; on failure the existing bucket is untouched
expandInternedStringBucket(existingBucket, entry, fails) ==
    IF fails THEN << >> ELSE Append(existingBucket, entry)

internString_Body(buckets, refs, pending, s, failAt) ==
    LET hash == hashString(s)
        \* hash & (BUCKET_COUNT - 1), the hash being non-negative
        bucketIndex == hash % BUCKET_COUNT
        bucket == BucketAt(buckets, bucketIndex)
        found == findInternedString(bucket, s, hash)
        made == newInternedString(refs, pending, s, hash, failAt)
        grown == IF bucket # << >>
                 THEN expandInternedStringBucket(bucket, made.entry,
                                                 failAt = "bucket")
                 ELSE newInternedStringBucket(made.entry, failAt = "bucket")
    IN  IF bucket # << >> /\ found # NoHandle
        THEN [ buckets |-> buckets, result |-> found, fault |-> pending,
               refs |-> refs, failed |-> FALSE ]
        ELSE IF made.entry = NoEntry
        THEN [ buckets |-> buckets, result |-> NoHandle,
               fault |-> pending \/ made.fault, refs |-> made.refs,
               failed |-> TRUE ]
        ELSE IF grown = << >>
        THEN \* throw_OutOfMemoryError(env); return NULL;
             [ buckets |-> buckets, result |-> NoHandle, fault |-> TRUE,
               refs |-> made.refs, failed |-> TRUE ]
        ELSE [ buckets |-> [ i \in DOMAIN buckets \cup { bucketIndex } |->
                               IF i = bucketIndex THEN grown ELSE buckets[i] ],
               result |-> made.entry.interned,
               fault |-> pending \/ made.fault,
               refs |-> made.refs, failed |-> made.fault ]

\* one call of internString(env, parsingContext, s), s not NULL
internString ==
    /\ RefCount(globalRefs) < MaxRefs
    /\ \E s \in InternInputs, failAt \in FailPoints :
         LET out == internString_Body(internedStrings, globalRefs, xmlFault,
                                      s, failAt)
         IN  /\ internedStrings' = out.buckets
             /\ globalRefs' = out.refs
             /\ xmlFault' = out.fault
             /\ lastIntern' = [ tick |-> 1 - lastIntern.tick, isNull |-> FALSE,
                                s |-> s, result |-> out.result,
                                failed |-> out.failed ]
             /\ firstHandle' =
                    IF out.result # NoHandle /\ firstHandle[s] = NoHandle
                    THEN [ firstHandle EXCEPT ![s] = out.result ]
                    ELSE firstHandle
    /\ UNCHANGED internFrame

\* if (s == NULL) return NULL;
internString_Null ==
    /\ lastIntern' = [ tick |-> 1 - lastIntern.tick, isNull |-> TRUE,
                       s |-> << >>, result |-> NoHandle, failed |-> FALSE ]
    /\ UNCHANGED << internedStrings, globalRefs, xmlFault, firstHandle >>
    /\ UNCHANGED internFrame

\* the native call returns and the pending exception is thrown in the caller
FaultDelivered ==
    /\ xmlFault
    /\ xmlFault' = FALSE
    /\ UNCHANGED << internedStrings, globalRefs, lastIntern, firstHandle >>
    /\ UNCHANGED internFrame

NextIntern ==
    \/ internString
    \/ internString_Null
    \/ FaultDelivered

SpecIntern == InitRegistry /\ [][NextIntern]_vars

(***************************************************************************)
(* Element names and the name stack.                                       *)
(***************************************************************************)
\* strtok_r(.., "|", ..): the non-empty runs between separators, in order
RECURSIVE Tokens(_)
Tokens(s) ==
    IF s = << >> THEN << >>
    ELSE IF s[1] = Bar THEN Tokens(Tail(s))
    ELSE LET bars == { i \in 1..Len(s) : s[i] = Bar }
             stop == IF bars = {} THEN Len(s) + 1
                     ELSE CHOOSE i \in bars : \A j \in bars : i <= j
         IN  << SubSeq(s, 1, stop - 1) >> \o Tokens(SubSeq(s, stop, Len(s)))

\* ExpatElementName::init: "uri|localName|prefix", "uri|localName", "localName"
ExpatElementName(s) ==
    LET t == Tokens(s)
    IN  IF Len(t) >= 3
        THEN [ mUri |-> t[1], mLocalName |-> t[2], mPrefix |-> t[3] ]
        ELSE IF Len(t) = 2
        THEN [ mUri |-> t[1], mLocalName |-> t[2], mPrefix |-> << >> ]
        ELSE [ mUri |-> << >>, mLocalName |-> t[1], mPrefix |-> << >> ]

\* the bytes ExpatElementName::qName interns
QNameBytes(e) ==
    IF e.mPrefix = << >> THEN e.mLocalName
    ELSE e.mPrefix \o << Colon >> \o e.mLocalName

\* stringStackPush; "growFails" says that realloc returns NULL
stringStackPush(st, h, growFails) ==
    IF st.stack.size = st.stack.capacity /\ growFails
    THEN [ stack |-> [ st.stack EXCEPT !.array = << >> ], fault |-> TRUE ]
    ELSE [ stack |-> [ array |-> Append(st.stack.array, h),
                       capacity |-> IF st.stack.size = st.stack.capacity
                                    THEN st.stack.capacity * 2
                                    ELSE st.stack.capacity,
                       size |-> st.stack.size + 1 ],
           fault |-> st.fault ]

\* stringStackPop: the value and the stack left
stringStackPop(stack) ==
    IF stack.size = 0
    THEN [ value |-> NoHandle, stack |-> stack ]
    ELSE [ value |-> stack.array[stack.size],
           stack |-> [ stack EXCEPT !.array = SubSeq(@, 1, stack.size - 1),
                                    !.size = @ - 1 ] ]

\* mutant: the three names are pushed in the order they are reported
startElement_Pushes_AsReported(st, uri, localName, qName, growFails) ==
    stringStackPush(stringStackPush(stringStackPush(st, uri, growFails),
                                    localName, growFails),
                    qName, growFails)

\* stringStackPush(qName); stringStackPush(uri); stringStackPush(localName);
startElement_Pushes(st, uri, localName, qName, growFails) ==
    stringStackPush(stringStackPush(stringStackPush(st, qName, growFails),
                                    uri, growFails),
                    localName, growFails)

\* an internString call inside a callback, on the context left by the last
InternIn(c, bytes, failAt) ==
    internString_Body(c.buckets, c.refs, c.fault, bytes, failAt)

Ctx == [ buckets |-> internedStrings, result |-> NoHandle, fault |-> xmlFault,
         refs |-> globalRefs, failed |-> FALSE ]

startElement ==
    /\ Len(openTags) < MaxDepth
    /\ IF xmlFault
       THEN \* if (env->ExceptionCheck()) return;
            UNCHANGED << internedStrings, globalRefs, xmlFault, stringStack,
                         openTags, openEvents, lastEvent >>
       ELSE \E elementName \in ElementNames, fault \in CallbackFaults :
              \E e \in { ExpatElementName(elementName) } :
              \* jstring uri = processNamespaces ? e.uri() : emptyString;
              \E c1 \in { IF processNamespaces
                           THEN InternIn(Ctx, e.mUri, fault) ELSE Ctx } :
              \* jstring localName = ... ? e.localName() : emptyString;
              \E c2 \in { IF processNamespaces
                           THEN InternIn(c1, e.mLocalName, fault) ELSE c1 } :
              \* jstring qName = e.qName();
              \E c3 \in { InternIn(c2, QNameBytes(e), fault) } :
              LET uri == IF processNamespaces THEN c1.result ELSE emptyString
                  localName == IF processNamespaces THEN c2.result
                                                    ELSE emptyString
                  qName == c3.result
                  throws == fault = "throws"
              IN
              \E st \in { startElement_Pushes(
                              [ stack |-> stringStack, fault |-> c3.fault ],
                              uri, localName, qName, fault = "grow") } :
                  /\ openTags' = Append(openTags, "element")
                  /\ internedStrings' = c3.buckets
                  /\ globalRefs' = c3.refs
                  /\ stringStack' = st.stack
                  \* CallVoidMethod(javaParser, startElementMethod, ...)
                  /\ xmlFault' = (st.fault \/ throws)
                  /\ lastEvent' = [ tick |-> 1 - lastEvent.tick,
                                    kind |-> "startElement", uri |-> uri,
                                    localName |-> localName, qName |-> qName ]
                  /\ openEvents' = Append(openEvents, lastEvent')
    /\ UNCHANGED << lastIntern, firstHandle, processNamespaces >>
    /\ UNCHANGED xmlFrame

endElement ==
    /\ openTags # << >>
    /\ openTags[Len(openTags)] = "element"
    /\ IF xmlFault
       THEN UNCHANGED << xmlFault, stringStack, openTags, openEvents,
                         lastEvent >>
       ELSE \E throws \in BOOLEAN :
              LET p1 == stringStackPop(stringStack)
                  p2 == stringStackPop(p1.stack)
                  p3 == stringStackPop(p2.stack)
              IN  /\ openTags' = SubSeq(openTags, 1, Len(openTags) - 1)
                  /\ stringStack' = p3.stack
                  /\ lastEvent' = [ tick |-> 1 - lastEvent.tick,
                                    kind |-> "endElement", uri |-> p2.value,
                                    localName |-> p1.value, qName |-> p3.value ]
                  /\ openEvents' = SubSeq(openEvents, 1, Len(openEvents) - 1)
                  /\ xmlFault' = throws
    /\ UNCHANGED << internedStrings, globalRefs, lastIntern, firstHandle,
                    processNamespaces >>
    /\ UNCHANGED xmlFrame

\* the namespace callbacks report the prefix in the qName field
startNamespace ==
    /\ processNamespaces
    /\ Len(openTags) < MaxDepth
    /\ IF xmlFault
       THEN UNCHANGED << internedStrings, globalRefs, xmlFault, stringStack,
                         openTags, openEvents, lastEvent >>
       ELSE \E prefix \in NsPrefixes, uri \in NsUris, fault \in CallbackFaults :
              \E c1 \in { IF prefix.null THEN Ctx
                           ELSE InternIn(Ctx, prefix.bytes, fault) } :
              \E c2 \in { IF uri.null \/ c1.fault THEN c1
                           ELSE InternIn(c1, uri.bytes, fault) } :
              LET internedPrefix == IF prefix.null THEN emptyString
                                                   ELSE c1.result
                  internedUri == IF uri.null THEN emptyString ELSE c2.result
                  throws == fault = "throws"
              IN
              \E st \in { stringStackPush(
                              [ stack |-> stringStack, fault |-> FALSE ],
                              internedPrefix, fault = "grow") } :
                  IF c1.fault \/ c2.fault
                  THEN \* if (env->ExceptionCheck()) return;
                       /\ internedStrings' = IF c1.fault THEN c1.buckets
                                                         ELSE c2.buckets
                       /\ globalRefs' = IF c1.fault THEN c1.refs ELSE c2.refs
                       /\ xmlFault' = TRUE
                       /\ openTags' = Append(openTags, "namespace")
                       /\ UNCHANGED << stringStack, openEvents, lastEvent >>
                  ELSE /\ openTags' = Append(openTags, "namespace")
                       /\ internedStrings' = c2.buckets
                       /\ globalRefs' = c2.refs
                       /\ stringStack' = st.stack
                       /\ xmlFault' = (st.fault \/ throws)
                       /\ lastEvent' = [ tick |-> 1 - lastEvent.tick,
                                         kind |-> "startNamespace",
                                         uri |-> internedUri,
                                         localName |-> NoHandle,
                                         qName |-> internedPrefix ]
                       /\ openEvents' = Append(openEvents, lastEvent')
    /\ UNCHANGED << lastIntern, firstHandle, processNamespaces >>
    /\ UNCHANGED xmlFrame

endNamespace ==
    /\ openTags # << >>
    /\ openTags[Len(openTags)] = "namespace"
    /\ IF xmlFault
       THEN UNCHANGED << xmlFault, stringStack, openTags, openEvents,
                         lastEvent >>
       ELSE \E throws \in BOOLEAN :
              LET p1 == stringStackPop(stringStack)
              IN  /\ openTags' = SubSeq(openTags, 1, Len(openTags) - 1)
                  /\ stringStack' = p1.stack
                  /\ lastEvent' = [ tick |-> 1 - lastEvent.tick,
                                    kind |-> "endNamespace", uri |-> NoHandle,
                                    localName |-> NoHandle,
                                    qName |-> p1.value ]
                  /\ openEvents' = SubSeq(openEvents, 1, Len(openEvents) - 1)
                  /\ xmlFault' = throws
    /\ UNCHANGED << internedStrings, globalRefs, lastIntern, firstHandle,
                    processNamespaces >>
    /\ UNCHANGED xmlFrame

\* initialize(encoding, processNamespaces) with namespace processing off
initialize_NoNamespaces ==
    /\ processNamespaces
    /\ openTags = << >>
    /\ lastEvent = NoEvent
    /\ ~xmlFault
    /\ processNamespaces' = FALSE
    /\ UNCHANGED << internVars, stringStack, openTags, openEvents, lastEvent >>
    /\ UNCHANGED xmlFrame

NextNames ==
    \/ initialize_NoNamespaces
    \/ startElement
    \/ endElement
    \/ startNamespace
    \/ endNamespace

SpecNames == InitRegistry /\ [][NextNames]_vars

(***************************************************************************)
(* Attribute lookup by qualified name.                                     *)
(***************************************************************************)
\* strrchr(qName, ':'): the position of the last colon, 0 when there is none
LastColon(qName) ==
    LET colons == { i \in 1..Len(qName) : qName[i] = Colon }
    IN  IF colons = {} THEN 0
        ELSE CHOOSE i \in colons : \A j \in colons : j <= i

\* strncmp(a, b, n) == 0 for strings without embedded NUL
StrNEqual(a, b, n) ==
    \A i \in 1..n :
        /\ (i <= Len(a)) = (i <= Len(b))
        /\ (i <= Len(a)) => a[i] = b[i]

matchesQName_LocalOnly(e, qName) ==
    LET lastColon == LastColon(qName)
    IN  SubSeq(qName, lastColon + 1, Len(qName)) = e.mLocalName

\* ExpatElementName::matchesQName
matchesQName(e, qName) ==
    LET lastColon == LastColon(qName)
    IN  IF lastColon = 0 \/ e.mPrefix = << >>
        THEN qName = e.mLocalName
        ELSE LET prefixLength == lastColon - 1
             IN  /\ Len(e.mPrefix) = prefixLength
                 /\ StrNEqual(qName, e.mPrefix, prefixLength)
                 /\ SubSeq(qName, lastColon + 1, Len(qName)) = e.mLocalName

\* the loop of getAttributeIndexForQName: the first index that matches
FirstMatch(attrs, qName) ==
    LET hits == { i \in 1..Len(attrs) :
                    matchesQName(ExpatElementName(PackedName(attrs[i])),
                                 qName) }
    IN  IF hits = {} THEN -1
        ELSE (CHOOSE i \in hits : \A j \in hits : i <= j) - 1

\* the parser hands a start tag's attribute array to the listener; the
\* array of the previous tag is gone
startElement_Attributes ==
    /\ \E attrs \in AttributeArrays :
          /\ attrs # attributes
          /\ attributes' = attrs
    /\ lastLookup' = NoLookup
    /\ UNCHANGED attrFrame

\* getAttributeIndexForQName; "charsFail" says GetStringUTFChars returns NULL
getAttributeIndexForQName ==
    /\ \E qName \in QNameQueries, charsFail \in BOOLEAN :
          lastLookup' =
              [ called |-> TRUE, qName |-> qName, failed |-> charsFail,
                found  |-> IF charsFail THEN -1
                           ELSE FirstMatch(attributes, qName) ]
    /\ UNCHANGED attributes
    /\ UNCHANGED attrFrame

NextAttrs ==
    \/ startElement_Attributes
    \/ getAttributeIndexForQName

SpecAttrs == InitRegistry /\ [][NextAttrs]_vars

(***************************************************************************)
(* Registry properties.                                                    *)
(***************************************************************************)
AllIds == { PackId(obj, type) : obj \in ObjAddrs, type \in RegistryTypes }

\* positions at which a thread reads or writes the table
InRegistrySection(t) ==
    pc[t] \in { "regCheck", "regInsert", "regUnlock",
                "lookSearch", "lookUnlock",
                "discFlag", "discClear", "discUnlock",
                "gcIter", "gcUnlock" }

\* C1: when the walk of a root-marking pass (dvmGcMarkDebuggerRefs) is
\* complete, every identifier that is in the registry at that moment has
\* been marked; and an identifier leaves the registry only through the clear
\* of dvmDbgDisconnected, so a pinned object is marked by every pass that runs
\* before the next disconnect.
C1_MarkPassMarksRegistry ==
    /\ [](pc[Collector] = "gcUnlock" => marked = dbgRegistry)
    /\ [][dbgRegistry \subseteq dbgRegistry' \/ pc[Handler] = "discClear"]_vars

\* a mark pass has just walked a registry holding every object, while a
\* worker is queued behind the lock with another registration
C1_Witness ==
    /\ pc[Collector] = "gcUnlock"
    /\ debuggerConnected
    /\ marked = ObjAddrs
    /\ \E w \in Workers : pc[w] = "regLock"

\* C2: when dvmDbgDisconnected has returned the registry is empty, lookup
\* finds no identifier, and debuggerConnected and debuggerActive are false.
C2_DisconnectEmptiesRegistry ==
    pc[Handler] = "discRet" =>
        /\ dbgRegistry = {}
        /\ \A id \in AllIds : ~lookupId(id)
        /\ ~debuggerConnected
        /\ ~debuggerActive

\* dvmDbgDisconnected has returned after a session in which every object was
\* registered and marked, with a worker's registration still queued
C2_Witness ==
    /\ pc[Handler] = "discRet"
    /\ marked = ObjAddrs
    /\ \E w \in Workers : pc[w] \in { "regLock", "regCheck" }

\* C3: outside the critical sections of the registry lock the registry is
\* empty whenever debuggerConnected is false, and the emptiness assertion of
\* dvmDbgConnected never fails.
C3_EmptyWhileDisconnected ==
    /\ (regLock = NoThread /\ ~debuggerConnected) => dbgRegistry = {}
    /\ pc[Handler] # "aborted"

\* a second session is being opened (the assertion has passed) after a
\* session that registered every object, while a worker holds the lock for a
\* registration that started in the old session
C3_Witness ==
    /\ pc[Handler] = "connSet"
    /\ marked = ObjAddrs
    /\ dbgRegistry = {}
    /\ \E w \in Workers : pc[w] = "regUnlock" /\ regLock = w

\* C4: insert, lookup, clear and the mark walk touch the table only while the
\* thread holds the registry lock, and the table does not change while a
\* mark walk is in progress.
C4_RegistryUnderLock ==
    /\ [](\A t \in RegThreads : InRegistrySection(t) => regLock = t)
    /\ [][pc[Collector] = "gcIter" => dbgRegistry' = dbgRegistry]_vars
    /\ [][(dbgRegistry' # dbgRegistry \/ ~(marked' \subseteq marked))
            => (regLock # NoThread /\ InRegistrySection(regLock))]_vars

\* a mark walk is in progress while an insert, a clear and another insert
\* all wait for the lock
C4_Witness ==
    /\ pc[Collector] = "gcIter"
    /\ markCursor # 0
    /\ pc[Handler] = "discLock"
    /\ \A w \in Workers : pc[w] = "regLock"

(***************************************************************************)
(* Invocation properties.                                                  *)
(***************************************************************************)
\* the step in which dvmDbgInvokeMethod makes its checks and posts
InvokeCheckStep == hpc = "idle" /\ hpc' \in { "rejected", "resume" }

\* the step in which thread t runs dvmDbgExecuteMethod
ExecuteStep(t) == tpc[t] = "woken" /\ tpc'[t] = "executed"

\* C5 (as stated): dvmDbgInvokeMethod against any thread whose suspend
\* counter is greater than 1 returns ERR_THREAD_SUSPENDED, leaves every
\* request slot and every suspend counter as it was, and does not block.
C5_Original ==
    [][(/\ InvokeCheckStep
        /\ hCall'.thread \in VmThreads
        /\ suspendCount[hCall'.thread] > 1)
        => (/\ hpc' = "rejected"
            /\ hOut'.err = "ERR_THREAD_SUSPENDED"
            /\ invokeReq' = invokeReq
            /\ suspendCount' = suspendCount)]_vars

\* C5 (amended): dvmDbgInvokeMethod against a thread that is found and
\* marked ready, and whose suspend counter is greater than 1, returns
\* ERR_THREAD_SUSPENDED and posts nothing: no request slot changes
\* (invokeNeeded stays false), no suspend counter changes, and the handler
\* goes straight to its return without waiting.
C5_TooDeepRejected ==
    /\ [][(/\ InvokeCheckStep
           /\ hCall'.thread \in VmThreads
           /\ invokeReq[hCall'.thread].ready
           /\ suspendCount[hCall'.thread] > 1)
           => (/\ hpc' = "rejected"
               /\ hOut'.err = "ERR_THREAD_SUSPENDED"
               /\ invokeReq' = invokeReq
               /\ ~invokeReq'[hCall'.thread].invokeNeeded
               /\ suspendCount' = suspendCount
               /\ reqLock' = reqLock)]_vars
    /\ [][(hpc = "rejected" /\ hpc' # hpc)
           => (/\ hpc' = "idle"
               /\ invokeReq' = invokeReq
               /\ suspendCount' = suspendCount)]_vars

\* a ready thread suspended twice has been refused
C5_Witness ==
    /\ hpc = "rejected"
    /\ hCall.thread \in VmThreads
    /\ invokeReq[hCall.thread].ready
    /\ suspendCount[hCall.thread] > 1
    /\ hOut.err = "ERR_THREAD_SUSPENDED"

\* C6 (as stated): a thread that is not marked ready is refused with a code
\* that differs from the code given for a thread that is not found.
C6_Original ==
    [][(/\ InvokeCheckStep
        /\ hCall'.thread \in VmThreads
        /\ ~invokeReq[hCall'.thread].ready)
        => (/\ hpc' = "rejected"
            /\ hOut'.err # InvokeReject(FALSE, FALSE, 0))]_vars

\* C6 (amended): a thread that is not found and a thread that is not marked
\* ready are both refused with ERR_INVALID_THREAD; a ready thread suspended
\* more than once is refused with ERR_THREAD_SUSPENDED, which differs from
\* it; any other request is accepted.
C6_RejectionCodes ==
    [][InvokeCheckStep =>
        LET threadId == hCall'.thread
            found == threadId \in VmThreads
        IN  /\ ~found =>
                 hpc' = "rejected" /\ hOut'.err = "ERR_INVALID_THREAD"
            /\ (found /\ ~invokeReq[threadId].ready) =>
                 hpc' = "rejected" /\ hOut'.err = "ERR_INVALID_THREAD"
            /\ (found /\ invokeReq[threadId].ready
                      /\ suspendCount[threadId] > 1) =>
                 hpc' = "rejected" /\ hOut'.err = "ERR_THREAD_SUSPENDED"
            /\ (found /\ invokeReq[threadId].ready
                      /\ suspendCount[threadId] <= 1) =>
                 hpc' = "resume"]_vars

\* a thread on the list that is not stopped at an event has been refused
C6_Witness ==
    /\ hpc = "rejected"
    /\ hCall.thread \in VmThreads
    /\ tpc[hCall.thread] = "running"
    /\ ~invokeReq[hCall.thread].ready
    /\ hOut.err = "ERR_INVALID_THREAD"

\* C7: when an accepted invocation has completed (the target ran the method
\* and suspended itself again, the handler re-suspended), the suspend
\* counter of the target and of every other thread is what it was right
\* before the request, with and without INVOKE_SINGLE_THREADED.
C7_SuspendCountsRestored ==
    hpc = "done" =>
        /\ tpc[hCall.thread] = "parked"
        /\ \A t \in VmThreads : suspendCount[t] = preSuspend[t]

\* an invocation that resumed the whole VM has completed; the other thread
\* was suspended once before it, like the target
C7_Witness ==
    /\ hpc = "done"
    /\ "INVOKE_SINGLE_THREADED" \notin hCall.options
    /\ preSuspend[hCall.thread] = 1
    /\ \E u \in VmThreads \ { hCall.thread } : preSuspend[u] = 1

\* C8: dvmDbgInvokeMethod never overwrites the request slot of a thread
\* whose request is still marked needed: while invokeNeeded is true the
\* posted fields do not change, and a request is posted only to a thread
\* marked ready whose slot is not marked needed.
C8_OneOutstandingRequest ==
    /\ [][\A t \in VmThreads :
            invokeReq[t].invokeNeeded
                => Posted(invokeReq'[t]) = Posted(invokeReq[t])]_vars
    /\ [][(InvokeCheckStep /\ hpc' = "resume")
            => (/\ invokeReq[hCall'.thread].ready
                /\ ~invokeReq[hCall'.thread].invokeNeeded
                /\ invokeReq'[hCall'.thread].invokeNeeded)]_vars

\* a second request to the same thread is in flight: the slot still holds
\* the exception identifier of an earlier one
C8_Witness ==
    \E t \in VmThreads :
        /\ invokeReq[t].invokeNeeded
        /\ tpc[t] = "woken"
        /\ invokeReq[t].exceptObj # ZeroId
        /\ hpc \in { "wait", "condWait" }

\* C9: when the method run by dvmDbgExecuteMethod throws, the request holds
\* the non-zero identifier of the thrown object, result value 0 and the tag
\* of the declared return type, and the thrown exception is no longer
\* pending; when it does not throw, the exception identifier is 0.
C9_ThrowRecorded ==
    [][\A t \in VmThreads :
         ExecuteStep(t) =>
            LET req == invokeReq'[t]
                call == lastCall'[t]
            IN  IF call.thrown # NULL
                THEN /\ req.exceptObj # ZeroId
                     /\ req.exceptObj = PackId(call.thrown, kObjectId)
                     /\ req.resultValue = 0
                     /\ req.resultTag =
                            dvmDbgGetSignatureTag(ReturnDescriptor(req.method))
                     /\ call.pending = NULL
                ELSE req.exceptObj = ZeroId]_vars

\* a method declared to return Object threw after storing a String
C9_Witness ==
    \E t \in VmThreads :
        /\ tpc[t] = "executed"
        /\ lastCall[t].thrown # NULL
        /\ lastCall[t].ret = FirstObj
        /\ invokeReq[t].method = "getValue"
        /\ invokeReq[t].resultTag = "JT_OBJECT"

\* C10: dvmDbgExecuteMethod leaves the thread's pending exception and its
\* status as they were on entry, whether or not the method threw and
\* whether or not an exception was pending on entry.
C10_ExceptionAndStatusKept ==
    [][\A t \in VmThreads :
         ExecuteStep(t) => /\ threadException'[t] = threadException[t]
                           /\ threadStatus'[t] = threadStatus[t]]_vars

\* the method threw while another exception was pending on entry
C10_Witness ==
    \E t \in VmThreads :
        /\ tpc[t] = "executed"
        /\ lastCall[t].thrown # NULL
        /\ threadException[t] # NULL
        /\ threadException[t] # lastCall[t].thrown
        /\ threadStatus[t] = "THREAD_VMWAIT"

(***************************************************************************)
(* Interned-string cache properties.                                       *)
(***************************************************************************)
\* a step that is one call of internString with a non-NULL argument
InternStep == lastIntern'.tick # lastIntern.tick /\ ~lastIntern'.isNull

\* what a lookup of byte string s in the cache finds
CacheHandle(buckets, s) ==
    findInternedString(BucketAt(buckets, hashString(s) % BUCKET_COUNT), s,
                       hashString(s))

\* C11: in one parser context, a call of internString that returns a handle
\* returns the handle first returned for the same byte string, and a handle
\* that was never returned for a different byte string, whatever the hashes
\* and buckets of the strings and however the buckets have grown.
C11_InternIdentity ==
    [][InternStep =>
        LET s == lastIntern'.s
            r == lastIntern'.result
        IN  r # NoHandle =>
              /\ firstHandle[s] # NoHandle => r = firstHandle[s]
              /\ \A other \in InternInputs \ { s } : firstHandle[other] # r]_vars

\* three byte strings of one bucket, two of them with the same hash, have
\* been interned, and the last call found one of them in the grown bucket
C11_Witness ==
    /\ \A s \in { << 65, 97 >>, << 66, 66 >>, << 70, 70 >> } :
          firstHandle[s] # NoHandle
    /\ Len(BucketAt(internedStrings, hashString(<< 65, 97 >>) % BUCKET_COUNT)) = 3
    /\ hashString(<< 65, 97 >>) = hashString(<< 66, 66 >>)
    /\ lastIntern.s = << 66, 66 >>
    /\ lastIntern.result = firstHandle[<< 66, 66 >>]
    /\ internedStrings[hashString(<< 65, 97 >>) % BUCKET_COUNT][3].bytes
           # << 66, 66 >>

\* C12: a call of internString in which an allocation or pinning step fails
\* returns no handle, leaves a fault pending and leaves the cache as it
\* was: every byte string interned earlier still resolves to its first
\* handle and the failed byte string is not in the cache.
C12_FailedInternKeepsCache ==
    [][(InternStep /\ lastIntern'.failed) =>
        /\ lastIntern'.result = NoHandle
        /\ xmlFault'
        /\ internedStrings' = internedStrings
        /\ \A s \in InternInputs :
              firstHandle[s] # NoHandle
                  => CacheHandle(internedStrings', s) = firstHandle[s]
        /\ CacheHandle(internedStrings', lastIntern'.s) = NoHandle]_vars

\* the growth of a bucket that already holds two entries has failed
C12_Witness ==
    /\ lastIntern.failed
    /\ ~lastIntern.isNull
    /\ xmlFault
    /\ lastIntern.s = << 70, 70 >>
    /\ Len(BucketAt(internedStrings, hashString(<< 70, 70 >>) % BUCKET_COUNT)) = 2
    /\ RefsTo(globalRefs, << 70, 70 >>) = 1

(***************************************************************************)
(* Name stack properties.                                                  *)
(***************************************************************************)
\* a step in which the listener is told of the end of an element / namespace
EndReported(kind) ==
    lastEvent'.tick # lastEvent.tick /\ lastEvent'.kind = kind

\* C13: while no fault is pending, every end-element call gives the listener
\* the URI, local name and qualified name handles its matching start-element
\* call gave, every end-namespace call gives the prefix handle of its
\* matching start-namespace call, and once the last open element or
\* namespace has ended the name stack is back at depth zero.
C13_EndMatchesStart ==
    /\ [][(EndReported("endElement") /\ ~xmlFault) =>
            LET start == openEvents[Len(openEvents)]
            IN  /\ start.kind = "startElement"
                /\ lastEvent'.uri = start.uri
                /\ lastEvent'.localName = start.localName
                /\ lastEvent'.qName = start.qName]_vars
    /\ [][(EndReported("endNamespace") /\ ~xmlFault) =>
            LET start == openEvents[Len(openEvents)]
            IN  /\ start.kind = "startNamespace"
                /\ lastEvent'.qName = start.qName]_vars
    /\ []((~xmlFault /\ openTags = << >>) => stringStack.size = 0)
    /\ [](~xmlFault => /\ Len(openEvents) = Len(openTags)
                       /\ stringStack.size = Len(stringStack.array))

\* an element has ended inside an element of the same name, after the stack
\* had grown past its first capacity, and its three handles differ
C13_Witness ==
    /\ ~xmlFault
    /\ lastEvent.kind = "endElement"
    /\ stringStack.capacity > StackSize
    /\ Len(openEvents) >= 2
    /\ openEvents[Len(openEvents)].kind = "startElement"
    /\ openEvents[Len(openEvents)].qName = lastEvent.qName
    /\ lastEvent.uri # lastEvent.localName
    /\ lastEvent.uri # lastEvent.qName
    /\ lastEvent.qName # lastEvent.localName

(***************************************************************************)
(* The DEX verifier: bytes, the header and the checksum.                   *)
(***************************************************************************)
\* the byte at a file offset (offsets count from 0)
ByteAt(buf, off) == buf[off + 1]

\* the bytes of a field: "size" bytes from file offset "off"
FieldBytes(buf, off, size) == SubSeq(buf, off + 1, off + size)

\* the buffer with a field's bytes replaced
StoreBytes(buf, off, bytes) ==
    SubSeq(buf, 1, off) \o bytes
        \o SubSeq(buf, off + Len(bytes) + 1, Len(buf))

RECURSIVE Reverse(_)
Reverse(bytes) ==
    IF bytes = << >> THEN << >>
    ELSE Reverse(Tail(bytes)) \o << Head(bytes) >>

\* a value of 2^31 or more stands as 2^31 - 1: every file size, count and
\* offset it is compared with is smaller
U4Max == 2147483647

\* the unsigned value of little-endian bytes
RECURSIVE LittleEndian(_)
LittleEndian(bytes) ==
    IF bytes = << >> THEN 0
    ELSE IF Len(bytes) = 4 /\ bytes[4] >= 128 THEN U4Max
    ELSE bytes[1] + 256 * LittleEndian(Tail(bytes))

\* what the host reads from the bytes of a field
HostValue(bytes) ==
    IF hostOrder = "little" THEN LittleEndian(bytes)
    ELSE LittleEndian(Reverse(bytes))

\* SWAP2 / SWAP4 on the bytes of a value: nothing on a little-endian host,
\* endianSwapU2 / endianSwapU4 otherwise
SWAP(bytes) ==
    IF hostOrder = "little" THEN bytes ELSE Reverse(bytes)

SWAP_FIELD_Always(buf, off, size) ==
    StoreBytes(buf, off, Reverse(FieldBytes(buf, off, size)))

\* SWAP_FIELD2 / SWAP_FIELD4 / SWAP_OFFSET4: (_field) = SWAP(_field)
SWAP_FIELD(buf, off, size) ==
    StoreBytes(buf, off, SWAP(FieldBytes(buf, off, size)))

\* the value of a field the code has swapped already
Field(buf, off, size) == HostValue(FieldBytes(buf, off, size))

\* little-endian bytes of a value, as a DEX file stores it
RECURSIVE ToBytes(_, _)
ToBytes(value, size) ==
    IF size = 0 THEN << >>
    ELSE << value % 256 >> \o ToBytes(value \div 256, size - 1)

\* ---- DexHeader ----
MagicLen     == 8
ChecksumLen  == 4
SignatureLen == 20
WordLen      == 4

DEX_MAGIC      == << 100, 101, 120, 10 >>   \* "dex\n"
DEX_MAGIC_VERS == << 48, 51, 53, 0 >>       \* "035\0"
kDexEndianConstant == 305419896             \* 0x12345678

\* the 4-byte fields that follow the signature, in the order of the struct
HeaderWords ==
    << "fileSize", "headerSize", "endianTag", "linkSize", "linkOff", "mapOff",
       "stringIdsSize", "stringIdsOff", "typeIdsSize", "typeIdsOff",
       "protoIdsSize", "protoIdsOff", "fieldIdsSize", "fieldIdsOff",
       "methodIdsSize", "methodIdsOff", "classDefsSize", "classDefsOff",
       "dataSize", "dataOff" >>

ChecksumOff  == MagicLen
SignatureOff == MagicLen + ChecksumLen
WordsOff     == MagicLen + ChecksumLen + SignatureLen

\* offsetof(DexHeader, name)
HeaderOff(name) ==
    WordsOff + WordLen * ((CHOOSE i \in 1..Len(HeaderWords) :
                              HeaderWords[i] = name) - 1)

\* sizeof(DexHeader)
SizeofDexHeader == WordsOff + WordLen * Len(HeaderWords)

\* pHeader->name, read by the host
Header(buf, name) == Field(buf, HeaderOff(name), WordLen)

\* ---- adler32 ----
AdlerBase == 65521

\* the sum of the bytes from..to of the buffer (1-based, inclusive), each
\* counted once, or ("weighted") once for every byte from it up to "to";
\* the range is halved so that long files need no deep recursion
RECURSIVE ByteSum(_, _, _, _, _)
ByteSum(buf, from, to, last, weighted) ==
    IF from > to THEN 0
    ELSE IF from = to
    THEN (IF weighted THEN last - from + 1 ELSE 1) * buf[from]
    ELSE ByteSum(buf, from, (from + to) \div 2, last, weighted)
           + ByteSum(buf, (from + to) \div 2 + 1, to, last, weighted)

\* adler32 over those bytes: a is 1 plus the bytes, b the sum of the values
\* a has gone through, both modulo 65521; the checksum is (b << 16) | a, here
\* as its four little-endian bytes
adler32(buf, from, to) ==
    LET count == IF to < from THEN 0 ELSE to - from + 1
        a == (1 + ByteSum(buf, from, to, to, FALSE)) % AdlerBase
        b == (count + ByteSum(buf, from, to, to, TRUE)) % AdlerBase
    IN  ToBytes(a, 2) \o ToBytes(b, 2)

\* (int) SWAP4(pHeader->fileSize): the value as a signed 32-bit integer
ExpectedLen(buf) ==
    LET b == SWAP(FieldBytes(buf, HeaderOff("fileSize"), WordLen))
        v == IF hostOrder = "little" THEN b ELSE Reverse(b)
    IN  v[1] + 256 * v[2] + 65536 * v[3]
          + 16777216 * (IF v[4] >= 128 THEN v[4] - 256 ELSE v[4])

(***************************************************************************)
(* The DEX verifier: the header and the map.                               *)
(***************************************************************************)
\* map item types (DexFile.h)
kDexTypeHeaderItem     == 0
kDexTypeStringIdItem   == 1
kDexTypeTypeIdItem     == 2
kDexTypeProtoIdItem    == 3
kDexTypeFieldIdItem    == 4
kDexTypeMethodIdItem   == 5
kDexTypeClassDefItem   == 6
kDexTypeMapList        == 4096
kDexTypeStringDataItem == 8194

\* the types mapTypeToBitMask gives a bit to
KnownMapTypes ==
    { kDexTypeHeaderItem, kDexTypeStringIdItem, kDexTypeTypeIdItem,
      kDexTypeProtoIdItem, kDexTypeFieldIdItem, kDexTypeMethodIdItem,
      kDexTypeClassDefItem, kDexTypeMapList, 4097, 4098, 4099, 8192, 8193,
      kDexTypeStringDataItem, 8195, 8196, 8197, 8198 }

\* isDataSectionType
isDataSectionType(mapType) ==
    mapType \notin { kDexTypeHeaderItem, kDexTypeStringIdItem,
                     kDexTypeTypeIdItem, kDexTypeProtoIdItem,
                     kDexTypeFieldIdItem, kDexTypeMethodIdItem,
                     kDexTypeClassDefItem }

\* checkPtrRange on file offsets: start inclusive to end exclusive
checkPtrRange(len, start, end) ==
    ~(start < 0 \/ start > len \/ end < start \/ end > len)

\* the outcome of a step: the buffer as the step left it and, when the step
\* failed, the check that failed
Pass(buf) == [ buf |-> buf, okay |-> TRUE, failedAt |-> "none" ]
Fail(buf, check) == [ buf |-> buf, okay |-> FALSE, failedAt |-> check ]

\* the SWAP_FIELD4 / SWAP_OFFSET4 lines of swapDexHeader, from word i on
RECURSIVE SwapHeaderWords(_, _)
SwapHeaderWords(buf, i) ==
    IF i > Len(HeaderWords) THEN buf
    ELSE SwapHeaderWords(SWAP_FIELD(buf, HeaderOff(HeaderWords[i]), WordLen),
                         i + 1)

\* swapDexHeader
swapDexHeader(buf, len) ==
    IF ~checkPtrRange(len, 0, SizeofDexHeader) THEN Fail(buf, "header range")
    ELSE
    LET swapped == SwapHeaderWords(SWAP_FIELD(buf, ChecksumOff, ChecksumLen), 1)
        linkOff == Header(swapped, "linkOff")
        linkEnd == linkOff + Header(swapped, "linkSize")
        dataOff == Header(swapped, "dataOff")
        dataEnd == dataOff + Header(swapped, "dataSize")
    IN  IF Header(swapped, "endianTag") # kDexEndianConstant
        THEN Fail(swapped, "endian tag")
        ELSE IF ~checkPtrRange(len, linkOff, linkEnd)
        THEN Fail(swapped, "link range")
        ELSE IF ~checkPtrRange(len, dataOff, dataEnd)
        THEN Fail(swapped, "data range")
        ELSE Pass(swapped)

\* ---- DexMapList: u4 size, then items of u2 type, u2 unused, u4 size,
\* ---- u4 offset
HalfLen == 2
SizeofDexMapItem == HalfLen + HalfLen + WordLen + WordLen

\* the file offset of map item k (from 1) of the map at mapOff
MapItemOff(mapOff, k) == mapOff + WordLen + SizeofDexMapItem * (k - 1)

\* item->type, item->size, item->offset as the host reads them
MapItem(buf, mapOff, k) ==
    LET e == MapItemOff(mapOff, k)
    IN  [ type   |-> Field(buf, e, HalfLen),
          size   |-> Field(buf, e + HalfLen + HalfLen, WordLen),
          offset |-> Field(buf, e + HalfLen + HalfLen + WordLen, WordLen) ]

\* the four swaps at the head of swapMap's loop body
SwapMapItem(buf, e) ==
    SWAP_FIELD(
      SWAP_FIELD(
        SWAP_FIELD(
          SWAP_FIELD(buf, e, HalfLen),
          e + HalfLen, HalfLen),
        e + HalfLen + HalfLen, WordLen),
      e + HalfLen + HalfLen + WordLen, WordLen)

OutOfOrder_Never(first, lastOffset, offset) == FALSE

\* mutant: the item count of a data entry is taken from the budget unchecked
TooManyItems_Never(data, icount, dataItemsLeft) == FALSE

\* isDataSectionType(item->type) and icount > dataItemsLeft
TooManyItems(data, icount, dataItemsLeft) ==
    data /\ icount > dataItemsLeft

\* the ordering test of swapMap: not the first item, and lastOffset >= offset
OutOfOrder(first, lastOffset, offset) ==
    ~first /\ lastOffset >= offset

\* the loop of swapMap from item k on; s carries the locals of swapMap
RECURSIVE swapMap_Loop(_, _, _, _)
swapMap_Loop(s, mapOff, k, count) ==
    IF k > count THEN s
    ELSE
    LET buf  == SwapMapItem(s.buf, MapItemOff(mapOff, k))
        item == MapItem(buf, mapOff, k)
        data == isDataSectionType(item.type)
        stop(check) == [ s EXCEPT !.buf = buf, !.okay = FALSE,
                                  !.failedAt = check ]
    IN  IF OutOfOrder(s.first, s.lastOffset, item.offset)
        THEN stop("map order")
        ELSE IF item.offset >= Header(buf, "fileSize")
        THEN stop("map item after end of file")
        ELSE IF TooManyItems(data, item.size, s.dataItemsLeft)
        THEN stop("unrealistically many items")
        ELSE IF item.type \notin KnownMapTypes
        THEN stop("unknown map type")
        ELSE IF item.type \in s.usedBits
        THEN stop("duplicate map section")
        ELSE swapMap_Loop(
               [ s EXCEPT !.buf = buf, !.first = FALSE,
                          !.lastOffset = item.offset,
                          !.dataItemsLeft =
                              IF data THEN @ - item.size ELSE @,
                          !.dataItemCount =
                              IF data THEN @ + item.size ELSE @,
                          !.usedBits = @ \cup { item.type } ],
               mapOff, k + 1, count)

\* the header tables swapMap wants a map entry for
HeaderTables ==
    { [ type |-> kDexTypeStringIdItem,
        off |-> "stringIdsOff", size |-> "stringIdsSize" ],
      [ type |-> kDexTypeTypeIdItem,
        off |-> "typeIdsOff", size |-> "typeIdsSize" ],
      [ type |-> kDexTypeProtoIdItem,
        off |-> "protoIdsOff", size |-> "protoIdsSize" ],
      [ type |-> kDexTypeFieldIdItem,
        off |-> "fieldIdsOff", size |-> "fieldIdsSize" ],
      [ type |-> kDexTypeMethodIdItem,
        off |-> "methodIdsOff", size |-> "methodIdsSize" ],
      [ type |-> kDexTypeClassDefItem,
        off |-> "classDefsOff", size |-> "classDefsSize" ] }

\* swapMap after its loop: the entries the map must have, then
\* dexDataMapAlloc
swapMap_Tail(s, allocFails) ==
    LET none(r) == [ buf |-> r.buf, okay |-> r.okay, failedAt |-> r.failedAt,
                     pDataMap |-> NoDataMap ]
        missing == { t \in HeaderTables :
                       /\ t.type \notin s.usedBits
                       /\ \/ Header(s.buf, t.off) # 0
                          \/ Header(s.buf, t.size) # 0 }
    IN  IF ~s.okay THEN none(s)
        ELSE IF kDexTypeHeaderItem \notin s.usedBits
        THEN none(Fail(s.buf, "map is missing header entry"))
        ELSE IF kDexTypeMapList \notin s.usedBits
        THEN none(Fail(s.buf, "map is missing map_list entry"))
        ELSE IF missing # {}
        THEN none(Fail(s.buf, "map is missing a table entry"))
        ELSE IF allocFails
        THEN none(Fail(s.buf, "data map allocation"))
        ELSE [ buf |-> s.buf, okay |-> TRUE, failedAt |-> "none",
               pDataMap |-> [ allocated |-> TRUE,
                              capacity  |-> s.dataItemCount,
                              entries   |-> << >> ] ]

\* the locals of swapMap when its loop is left, by return or at its end
swapMap_Locals(buf1, mapOff, count) ==
    swapMap_Loop(
      [ buf |-> buf1, okay |-> TRUE, failedAt |-> "none",
        first |-> TRUE, lastOffset |-> 0,
        dataItemsLeft |-> Header(buf1, "dataSize"),
        dataItemCount |-> 0, usedBits |-> {} ],
      mapOff, 1, count)

\* swapMap; "allocFails" says dexDataMapAlloc returns NULL
swapMap(buf0, len, allocFails) ==
    LET mapOff == Header(buf0, "mapOff")
        buf1   == SWAP_FIELD(buf0, mapOff, WordLen)
        count  == Field(buf1, mapOff, WordLen)
        list   == mapOff + WordLen
        none(r) == [ buf |-> r.buf, okay |-> r.okay, failedAt |-> r.failedAt,
                     pDataMap |-> NoDataMap ]
    IN  IF ~checkPtrRange(len, list, list + count * SizeofDexMapItem)
        THEN none(Fail(buf1, "map list size"))
        ELSE
        swapMap_Tail(swapMap_Locals(buf1, mapOff, count), allocFails)

(***************************************************************************)
(* The DEX verifier: string_id_item and string_data_item.                  *)
(***************************************************************************)
Leb128MaxBytes == 5
Leb128Group    == 128

\* readAndVerifyUnsignedLeb128 from file offset "off": the value, the offset
\* after it, and whether it ended inside the file within five bytes
RECURSIVE readAndVerifyUnsignedLeb128(_, _, _, _)
readAndVerifyUnsignedLeb128(buf, off, len, n) ==
    IF off >= len \/ n > Leb128MaxBytes
    THEN [ value |-> 0, next |-> off, okay |-> FALSE ]
    ELSE LET byte == ByteAt(buf, off)
         IN  IF byte < Leb128Group
             THEN [ value |-> byte, next |-> off + 1, okay |-> TRUE ]
             ELSE LET rest == readAndVerifyUnsignedLeb128(buf, off + 1, len,
                                                          n + 1)
                  IN  [ rest EXCEPT
                          !.value = (byte - Leb128Group) + Leb128Group * @ ]

\* the verdict of a visitor: the offset after the item, or NULL
ItemEnd(buf, next) == [ buf |-> buf, okay |-> TRUE, next |-> next ]
ItemNull(buf) == [ buf |-> buf, okay |-> FALSE, next |-> 0 ]

\* swapStringIdItem
swapStringIdItem(buf, len, ptr) ==
    IF ~checkPtrRange(len, ptr, ptr + WordLen) THEN ItemNull(buf)
    ELSE ItemEnd(SWAP_FIELD(buf, ptr, WordLen), ptr + WordLen)

\* the visitor never returned: it read outside every mapping
ItemCrash(buf) == [ buf |-> buf, okay |-> FALSE, next |-> Unmapped ]

\* a byte read without a range check: the buffer may be followed by mapped
\* bytes that are not part of the file (buf is then longer than len), and
\* past them nothing is mapped
Mapped(buf, off) == off < Len(buf)

IllegalTwoByte_Never(value) == FALSE

\* "Illegal representation" of a two-byte sequence:
\* (value != 0) && (value < 0x80)
IllegalTwoByte(value) == value # 0 /\ value < 128

\* where the loop of intraVerifyStringDataItem stops
UnitsEnd(data, why) == [ data |-> data, why |-> why ]

\* the loop of intraVerifyStringDataItem over the declared UTF-16 units:
\* the offset after the last one, or the check that failed
RECURSIVE StringDataUnits(_, _, _, _)
StringDataUnits(buf, len, data, left) ==
    IF left = 0 THEN UnitsEnd(data, "none")
    ELSE IF data >= len THEN UnitsEnd(data, "beyond end-of-file")
    ELSE
    LET byte1 == ByteAt(buf, data)
        high  == byte1 \div 16
    IN  IF high = 0
        THEN IF byte1 = 0 THEN UnitsEnd(data, "shorter")
             ELSE StringDataUnits(buf, len, data + 1, left - 1)
        ELSE IF high \in 1..7
        THEN StringDataUnits(buf, len, data + 1, left - 1)
        ELSE IF high \in { 8, 9, 10, 11, 15 }
        THEN UnitsEnd(data, "illegal start")
        ELSE IF ~Mapped(buf, data + 1) THEN UnitsEnd(data, "crash")
        ELSE IF ByteAt(buf, data + 1) \div 64 # 2
        THEN UnitsEnd(data, "illegal continuation")
        ELSE IF high = 14
        THEN IF ~Mapped(buf, data + 2) THEN UnitsEnd(data, "crash")
             ELSE
             LET byte2 == ByteAt(buf, data + 1)
                 byte3 == ByteAt(buf, data + 2)
                 value == (byte1 % 16) * 4096 + (byte2 % 64) * 64
                            + (byte3 % 64)
             IN  IF byte3 \div 64 # 2
                 THEN UnitsEnd(data, "illegal continuation")
                 ELSE IF value < 2048
                 THEN UnitsEnd(data, "illegal representation")
                 ELSE StringDataUnits(buf, len, data + 3, left - 1)
        ELSE LET byte2 == ByteAt(buf, data + 1)
                 value == (byte1 % 32) * 64 + (byte2 % 64)
             IN  IF IllegalTwoByte(value)
                 THEN UnitsEnd(data, "illegal representation")
                 ELSE StringDataUnits(buf, len, data + 2, left - 1)

StringDataVerdict_NoTerminator(buf, len, ptr) ==
    LET utf16Size == readAndVerifyUnsignedLeb128(buf, ptr, len, 1)
    IN  IF ~utf16Size.okay THEN UnitsEnd(ptr, "bogus utf16_size")
        ELSE LET units == StringDataUnits(buf, len, utf16Size.next,
                                          utf16Size.value)
             IN  IF units.why # "none" THEN units
                 ELSE UnitsEnd(units.data + 1, "none")

\* intraVerifyStringDataItem with the diagnosis it logs: the terminator is
\* read without a range check
StringDataVerdict(buf, len, ptr) ==
    LET utf16Size == readAndVerifyUnsignedLeb128(buf, ptr, len, 1)
    IN  IF ~utf16Size.okay THEN UnitsEnd(ptr, "bogus utf16_size")
        ELSE LET units == StringDataUnits(buf, len, utf16Size.next,
                                          utf16Size.value)
             IN  IF units.why # "none" THEN units
                 ELSE IF ~Mapped(buf, units.data)
                 THEN UnitsEnd(units.data, "crash")
                 ELSE IF ByteAt(buf, units.data) # 0
                 THEN UnitsEnd(units.data, "longer")
                 ELSE UnitsEnd(units.data + 1, "none")

\* intraVerifyStringDataItem
intraVerifyStringDataItem(buf, len, ptr) ==
    LET verdict == StringDataVerdict(buf, len, ptr)
    IN  IF verdict.why = "crash" THEN ItemCrash(buf)
        ELSE IF verdict.why # "none" THEN ItemNull(buf)
        ELSE ItemEnd(buf, verdict.data)

\* dexGetStringData: the offset of the bytes after the length
dexGetStringData(buf, len, stringDataOff) ==
    readAndVerifyUnsignedLeb128(buf, stringDataOff, len, 1).next

\* dexGetUtf16FromUtf8 to the terminating zero: the UTF-16 units of the
\* modified UTF-8 string at offset p
RECURSIVE Utf16Units(_, _)
Utf16Units(buf, p) ==
    LET one == ByteAt(buf, p)
    IN  IF one = 0 THEN << >>
        ELSE IF one < 128 THEN << one >> \o Utf16Units(buf, p + 1)
        ELSE IF (one \div 32) % 2 = 1
        THEN << (one % 16) * 4096 + (ByteAt(buf, p + 1) % 64) * 64
                  + (ByteAt(buf, p + 2) % 64) >>
             \o Utf16Units(buf, p + 3)
        ELSE << (one % 32) * 64 + (ByteAt(buf, p + 1) % 64) >>
             \o Utf16Units(buf, p + 2)

\* the comparison loop of dexUtf8Cmp: the first difference decides, and a
\* string that ends first is the smaller
RECURSIVE CompareUnits(_, _)
CompareUnits(a, b) ==
    IF a = << >> THEN (IF b = << >> THEN 0 ELSE -1)
    ELSE IF b = << >> THEN 1
    ELSE IF a[1] # b[1] THEN a[1] - b[1]
    ELSE CompareUnits(Tail(a), Tail(b))

\* the bytes of the string at offset p, up to the terminating zero
RECURSIVE RawBytes(_, _)
RawBytes(buf, p) ==
    IF ByteAt(buf, p) = 0 THEN << >>
    ELSE << ByteAt(buf, p) >> \o RawBytes(buf, p + 1)

dexUtf8Cmp_Bytes(buf, p0, p1) ==
    CompareUnits(RawBytes(buf, p0), RawBytes(buf, p1))

\* dexUtf8Cmp: the strings compared unit by decoded UTF-16 unit
dexUtf8Cmp(buf, p0, p1) ==
    CompareUnits(Utf16Units(buf, p0), Utf16Units(buf, p1))

\* dexDataMapVerify: the offset is registered with this type
dexDataMapVerify(pDataMap, offset, type) ==
    \E i \in 1..Len(pDataMap.entries) :
        pDataMap.entries[i] = [ offset |-> offset, type |-> type ]

\* dexDataMapAdd
dexDataMapAdd(pDataMap, offset, type) ==
    [ pDataMap EXCEPT
        !.entries = Append(@, [ offset |-> offset, type |-> type ]) ]

\* crossVerifyStringIdItem; previousItem < 0 stands for NULL
crossVerifyStringIdItem(buf, len, pDataMap, ptr, previousItem) ==
    LET stringDataOff == Field(buf, ptr, WordLen)
    IN  IF ~dexDataMapVerify(pDataMap, stringDataOff, kDexTypeStringDataItem)
        THEN ItemNull(buf)
        ELSE IF previousItem >= 0
                /\ dexUtf8Cmp(buf,
                     dexGetStringData(buf, len,
                                      Field(buf, previousItem, WordLen)),
                     dexGetStringData(buf, len, stringDataOff)) >= 0
        THEN ItemNull(buf)
        ELSE ItemEnd(buf, ptr + WordLen)

(***************************************************************************)
(* The DEX verifier: the structural pass and the cross-item pass.          *)
(***************************************************************************)
\* (offset + alignmentMask) & ~alignmentMask
AlignUp(offset, alignment) ==
    ((offset + alignment - 1) \div alignment) * alignment

\* mutant: the bytes between sections and before items are not looked at
ZeroPadding_Unchecked(buf, from, to) == TRUE

\* the bytes of the file from offset "from" up to "to" are all zero
ZeroPadding(buf, from, to) ==
    \A off \in from..(to - 1) : ByteAt(buf, off) = 0

\* the item visitors: func(state, ptr)
Visit(func, s, ptr, previousItem) ==
    IF func = "swapStringIdItem"
    THEN swapStringIdItem(s.buf, s.fileLen, ptr)
    ELSE IF func = "intraVerifyStringDataItem"
    THEN intraVerifyStringDataItem(s.buf, s.fileLen, ptr)
    ELSE crossVerifyStringIdItem(s.buf, s.fileLen, s.pDataMap, ptr,
                                 previousItem)

\* a pass stops: okay is false and failedAt names the check
Stop(s, check) == [ s EXCEPT !.okay = FALSE, !.failedAt = check ]

\* iterateSectionWithOptionalUpdate from item i on; mapType < 0 leaves the
\* data map alone; s.nextOffset is the running "offset"
RECURSIVE iterateSectionWithOptionalUpdate(_, _, _, _, _, _, _)
iterateSectionWithOptionalUpdate(s, i, count, func, alignment, mapType, previousItem) ==
    IF i >= count THEN s
    ELSE
    LET offset    == s.nextOffset
        newOffset == AlignUp(offset, alignment)
    IN  IF offset < newOffset /\ ~checkPtrRange(s.fileLen, offset, newOffset)
        THEN Stop(s, "padding range")
        ELSE IF ~ZeroPadding(s.buf, offset, newOffset)
        THEN Stop(s, "non-zero padding")
        ELSE
        LET item == Visit(func, s, newOffset, previousItem)
        IN  IF ~item.okay
            THEN Stop([ s EXCEPT !.buf = item.buf ], "item")
            ELSE IF item.next > s.fileLen
            THEN Stop([ s EXCEPT !.buf = item.buf ], "item out of bounds")
            ELSE iterateSectionWithOptionalUpdate(
                   [ s EXCEPT
                       !.buf = item.buf,
                       !.nextOffset = item.next,
                       !.visited = Append(@, [ func |-> func,
                                               offset |-> newOffset ]),
                       !.pDataMap =
                           IF mapType >= 0
                           THEN dexDataMapAdd(@, newOffset, mapType)
                           ELSE @ ],
                   i + 1, count, func, alignment, mapType, newOffset)

\* checkBoundsAndIterateSection
checkBoundsAndIterateSection(s, offset, count, expectedOffset, expectedCount, func, alignment) ==
    IF offset # expectedOffset THEN Stop(s, "section offset")
    ELSE IF count # expectedCount THEN Stop(s, "section size")
    ELSE iterateSectionWithOptionalUpdate(
           [ s EXCEPT !.nextOffset = offset ], 0, count, func, alignment,
           -1, -1)

\* iterateDataSection
iterateDataSection(s, offset, count, func, alignment, mapType) ==
    LET dataStart == Header(s.buf, "dataOff")
        dataEnd   == dataStart + Header(s.buf, "dataSize")
    IN  IF offset < dataStart \/ offset >= dataEnd
        THEN Stop(s, "data subsection offset")
        ELSE LET r == iterateSectionWithOptionalUpdate(
                        [ s EXCEPT !.nextOffset = offset ], 0, count, func,
                        alignment, mapType, -1)
             IN  IF ~r.okay THEN r
                 ELSE IF r.nextOffset > dataEnd
                 THEN Stop(r, "data subsection end")
                 ELSE r

\* checkHeaderSection
checkHeaderSection(s, sectionOffset, sectionCount) ==
    IF sectionCount # 1 THEN Stop(s, "multiple header items")
    ELSE IF sectionOffset # 0 THEN Stop(s, "header not at start")
    ELSE [ s EXCEPT !.nextOffset = Header(s.buf, "headerSize") ]

\* checkMapSection
checkMapSection(s, sectionOffset, sectionCount) ==
    IF sectionCount # 1 THEN Stop(s, "multiple map lists")
    ELSE IF sectionOffset # Header(s.buf, "mapOff")
    THEN Stop(s, "map not at header offset")
    ELSE [ s EXCEPT
             !.nextOffset = sectionOffset + WordLen
                 + Field(s.buf, sectionOffset, WordLen) * SizeofDexMapItem ]

\* the loop of swapEverythingButHeaderAndMap from map item k on;
\* s.nextOffset is "lastOffset".  The files checked here hold a header,
\* string ids, string data and a map; the visitors of the other item types
\* are not reached.
RECURSIVE swapEverythingButHeaderAndMap(_, _, _)
swapEverythingButHeaderAndMap(s, k, count) ==
    IF ~s.okay \/ k > count THEN s
    ELSE
    LET item       == MapItem(s.buf, Header(s.buf, "mapOff"), k)
        lastOffset == s.nextOffset
    IN  IF lastOffset < item.offset
           /\ ~checkPtrRange(s.fileLen, lastOffset, item.offset)
        THEN Stop(s, "section padding range")
        ELSE IF lastOffset < item.offset
                /\ ~ZeroPadding(s.buf, lastOffset, item.offset)
        THEN Stop(s, "non-zero padding before section")
        ELSE IF lastOffset > item.offset
        THEN Stop(s, "section overlap")
        ELSE swapEverythingButHeaderAndMap(
               IF item.type = kDexTypeHeaderItem
               THEN checkHeaderSection(s, item.offset, item.size)
               ELSE IF item.type = kDexTypeStringIdItem
               THEN checkBoundsAndIterateSection(s, item.offset, item.size,
                        Header(s.buf, "stringIdsOff"),
                        Header(s.buf, "stringIdsSize"),
                        "swapStringIdItem", WordLen)
               ELSE IF item.type = kDexTypeMapList
               THEN checkMapSection(s, item.offset, item.size)
               ELSE IF item.type = kDexTypeStringDataItem
               THEN iterateDataSection(s, item.offset, item.size,
                        "intraVerifyStringDataItem", 1, item.type)
               ELSE Stop(s, "unknown map type"),
               k + 1, count)

\* the loop of crossVerifyEverything from map item k on
RECURSIVE crossVerifyEverything(_, _, _)
crossVerifyEverything(s, k, count) ==
    IF ~s.okay \/ k > count THEN s
    ELSE
    LET item == MapItem(s.buf, Header(s.buf, "mapOff"), k)
    IN  crossVerifyEverything(
          IF item.type \in { kDexTypeHeaderItem, kDexTypeMapList,
                             kDexTypeStringDataItem }
          THEN s
          ELSE IF item.type = kDexTypeStringIdItem
          THEN iterateSectionWithOptionalUpdate(
                 [ s EXCEPT !.nextOffset = item.offset ], 0, item.size,
                 "crossVerifyStringIdItem", WordLen, -1, -1)
          ELSE Stop(s, "unknown map type"),
          k + 1, count)

(***************************************************************************)
(* The DEX verifier: dexFixByteOrdering.                                   *)
(***************************************************************************)
\* the little-endian bytes of the value the host holds in these bytes
ValueBytes(bytes) == IF hostOrder = "little" THEN bytes ELSE Reverse(bytes)

\* what a read far beyond the buffer can do: the process dies, or the sum
\* of whatever was read differs from the stored one
WildReads == { "crash", "checksum" }

\* the value dexFixByteOrdering leaves: the buffer, okay, the step it got
\* to and the check that failed there, with the data map and the items the
\* passes visited
Outcome(stage, r, pDataMap, visited) ==
    [ done |-> TRUE, returned |-> TRUE, okay |-> r.okay, stage |-> stage,
      failedAt |-> r.failedAt, buf |-> r.buf, pDataMap |-> pDataMap,
      visited |-> visited ]

\* adler != expectedChecksum, over the bytes after the checksum field up to
\* the stored file size
ChecksumMatches(buf, storedFileSize) ==
    adler32(buf, MagicLen + ChecksumLen + 1, storedFileSize)
        = ValueBytes(SWAP(FieldBytes(buf, ChecksumOff, ChecksumLen)))

\* dexFixByteOrdering up to the checksum: magic, version, length, adler32;
\* "wild" is what the C run does when adler32 is handed a length that
\* reaches beyond the buffer
CheckMagicAndChecksum(addr, len, wild) ==
    LET none(r) == Outcome("checksum", r, NoDataMap, << >>)
        expectedLen == ExpectedLen(addr)
    IN  IF FieldBytes(addr, 0, Len(DEX_MAGIC)) # DEX_MAGIC
        THEN none(Fail(addr, "magic"))
        ELSE IF FieldBytes(addr, Len(DEX_MAGIC), Len(DEX_MAGIC_VERS))
                  # DEX_MAGIC_VERS
        THEN none(Fail(addr, "version"))
        ELSE IF len < expectedLen
        THEN none(Fail(addr, "length"))
        ELSE IF expectedLen < MagicLen + ChecksumLen
        THEN IF wild = "crash"
             THEN [ NoRun EXCEPT !.done = TRUE, !.buf = addr,
                                 !.stage = "checksum",
                                 !.failedAt = "read beyond the buffer" ]
             ELSE none(Fail(addr, "checksum"))
        ELSE IF ~ChecksumMatches(addr, expectedLen)
        THEN none(Fail(addr, "checksum"))
        ELSE none(Pass(addr))

\* if (okay) okay = swapDexHeader(..), then the header size and the
\* presence of a map
SwapHeaderStep(r, len) ==
    IF ~r.okay THEN r
    ELSE LET h == swapDexHeader(r.buf, len)
             none(x) == Outcome("header", x, NoDataMap, << >>)
         IN  IF ~h.okay THEN none(h)
             ELSE IF Header(h.buf, "headerSize") < SizeofDexHeader
             THEN none(Fail(h.buf, "small header size"))
             ELSE IF Header(h.buf, "mapOff") = 0
             THEN none(Fail(h.buf, "no map"))
             ELSE none(h)

\* okay = okay && swapMap(&state, pDexMap)
SwapMapStep(r, len, allocFails) ==
    IF ~r.okay THEN r
    ELSE LET m == swapMap(r.buf, len, allocFails)
         IN  Outcome("swapMap", m, m.pDataMap, << >>)

\* the number of items of the (swapped) map
MapCount(buf) == Field(buf, Header(buf, "mapOff"), WordLen)

\* okay = okay && swapEverythingButHeaderAndMap(&state, pDexMap)
SwapEverythingStep(r, len) ==
    IF ~r.okay THEN r
    ELSE LET s == swapEverythingButHeaderAndMap(
                    [ buf |-> r.buf, okay |-> TRUE, failedAt |-> "none",
                      fileLen |-> len, pDataMap |-> r.pDataMap,
                      visited |-> << >>, nextOffset |-> 0 ],
                    1, MapCount(r.buf))
         IN  Outcome("swapEverythingButHeaderAndMap", s, s.pDataMap,
                     s.visited)

\* mutant: the verdict of the cross-item pass is dropped
CrossVerifyStep_Dropped(r, len) ==
    IF ~r.okay THEN r
    ELSE LET s == crossVerifyEverything(
                    [ buf |-> r.buf, okay |-> TRUE, failedAt |-> "none",
                      fileLen |-> len, pDataMap |-> r.pDataMap,
                      visited |-> r.visited, nextOffset |-> 0 ],
                    1, MapCount(r.buf))
         IN  Outcome("crossVerifyEverything", [ s EXCEPT !.okay = TRUE ],
                     s.pDataMap, s.visited)

\* okay = okay && crossVerifyEverything(&state, pDexMap)
CrossVerifyStep(r, len) ==
    IF ~r.okay THEN r
    ELSE LET s == crossVerifyEverything(
                    [ buf |-> r.buf, okay |-> TRUE, failedAt |-> "none",
                      fileLen |-> len, pDataMap |-> r.pDataMap,
                      visited |-> r.visited, nextOffset |-> 0 ],
                    1, MapCount(r.buf))
         IN  Outcome("crossVerifyEverything", s, s.pDataMap, s.visited)

(***************************************************************************)
(* DEX files to verify.                                                    *)
(***************************************************************************)
\* string tables, as the UTF-16 units of each string in table order
StringTables ==
    { << >>,
      << <<97>> >>,
      << <<97>>, <<98>> >>,
      << <<98>>, <<97>> >>,
      << <<97>>, <<97>> >>,
      << <<97>>, <<97, 98>> >>,
      << <<1>>, <<0>> >>,
      << <<0>>, <<1>> >>,
      << <<97>>, <<233>> >>,
      << <<97>>, <<99>>, <<98>> >> }

\* the modified UTF-8 bytes of a string: one byte for 1..127, two for 0 and
\* 128..2047, three above
RECURSIVE ModifiedUtf8(_)
ModifiedUtf8(units) ==
    IF units = << >> THEN << >>
    ELSE LET u == Head(units)
         IN  (IF u >= 1 /\ u <= 127 THEN << u >>
              ELSE IF u <= 2047
              THEN << 192 + (u \div 64), 128 + (u % 64) >>
              ELSE << 224 + (u \div 4096), 128 + ((u \div 64) % 64),
                      128 + (u % 64) >>)
             \o ModifiedUtf8(Tail(units))

\* what is done to the map a well-formed file would have
MapEdits == { "none", "swap", "same offset", "same type", "unknown type" }

\* a string_data_item: the length in UTF-16 units, the bytes, a zero
StringData(units) == << Len(units) >> \o ModifiedUtf8(units) \o << 0 >>

RECURSIVE Concat(_)
Concat(seqs) == IF seqs = << >> THEN << >> ELSE seqs[1] \o Concat(Tail(seqs))

Zeros(n) == [ i \in 1..n |-> 0 ]

\* the file offset of string k's data, the data starting at dataOff
StringDataOff(strs, dataOff, k) ==
    dataOff + Len(Concat([ j \in 1..(k - 1) |-> StringData(strs[j]) ]))

MapEntry(type, size, offset) ==
    [ type |-> type, size |-> size, offset |-> offset ]

\* the map of a well-formed file with n strings
GoodMap(n, dataOff, mapOff) ==
    << MapEntry(kDexTypeHeaderItem, 1, 0) >>
    \o (IF n = 0 THEN << >>
        ELSE << MapEntry(kDexTypeStringIdItem, n, SizeofDexHeader),
                MapEntry(kDexTypeStringDataItem, n, dataOff) >>)
    \o << MapEntry(kDexTypeMapList, 1, mapOff) >>

\* what is done to the sections of a file whose map is in order: the
\* string data begins inside the string ids, a non-zero byte stands between
\* the string data and the map, the data section ends inside the last
\* string, the string ids begin one byte after the header with a
\* non-zero byte in front of the first aligned id, or the data section is
\* declared one byte shorter than the number of items the map gives it
Damages == { "overlap", "gap", "short data", "item padding", "tiny data" }

\* the string tables, all in order, of the files that are damaged
DamagedTables == { << <<97>> >>, << <<97>>, <<98>> >> }

\* the map after an edit; every edit of the map touches the last two
\* entries, a damaged file has its four entries
EditMap(map, edit) ==
    LET m == Len(map)
    IN  IF edit = "overlap"
        THEN [ map EXCEPT ![m - 1].offset = @ - 1 ]
        ELSE IF edit = "item padding"
        THEN [ map EXCEPT ![m - 2].offset = @ + 1 ]
        ELSE IF edit = "swap"
        THEN [ map EXCEPT ![m - 1] = map[m], ![m] = map[m - 1] ]
        ELSE IF edit = "same offset"
        THEN Append(map, MapEntry(kDexTypeTypeIdItem, 0, map[m].offset))
        ELSE IF edit = "same type"
        THEN Append(map, MapEntry(map[m - 1].type, 0, map[m].offset + 1))
        ELSE IF edit = "unknown type"
        THEN Append(map, MapEntry(7, 0, map[m].offset + 1))
        ELSE map

MapEntryBytes(e) ==
    ToBytes(e.type, HalfLen) \o ToBytes(0, HalfLen)
        \o ToBytes(e.size, WordLen) \o ToBytes(e.offset, WordLen)

\* the signature field: bytes the verifier never looks at
SignatureBytes == [ i \in 1..SignatureLen |-> i ]

\* the bytes of a file with these strings and this map edit, followed by
\* "trailing" bytes beyond the stored file size
MakeDex(strs, edit, trailing) ==
    LET n        == Len(strs)
        idsPad   == IF edit = "item padding" THEN << 0, 1, 0, 0 >> ELSE << >>
        dataOff  == SizeofDexHeader + Len(idsPad) + WordLen * n
        strData  == Concat([ k \in 1..n |-> StringData(strs[k]) ])
        mapOff   == AlignUp(dataOff + Len(strData), WordLen)
        gap      == [ i \in 1..(mapOff - (dataOff + Len(strData))) |->
                        IF edit = "gap" THEN 1 ELSE 0 ]
        map      == EditMap(GoodMap(n, dataOff, mapOff), edit)
        fileSize == mapOff + WordLen + SizeofDexMapItem * Len(map)
        word(name) ==
            CASE name = "fileSize"      -> fileSize
              [] name = "headerSize"    -> SizeofDexHeader
              [] name = "endianTag"     -> kDexEndianConstant
              [] name = "mapOff"        -> mapOff
              [] name = "stringIdsSize" -> n
              [] name = "stringIdsOff"  ->
                     IF n = 0 THEN 0
                     ELSE IF edit = "item padding" THEN SizeofDexHeader + 1
                     ELSE SizeofDexHeader
              [] name = "dataSize"      ->
                     IF edit = "short data" THEN Len(strData) - 1
                     ELSE IF edit = "tiny data" THEN n
                     ELSE fileSize - dataOff
              [] name = "dataOff"       -> dataOff
              [] OTHER                  -> 0
        words    == Concat([ i \in 1..Len(HeaderWords) |->
                               ToBytes(word(HeaderWords[i]), WordLen) ])
        ids      == Concat([ k \in 1..n |->
                               ToBytes(StringDataOff(strs, dataOff, k),
                                       WordLen) ])
        body     == SignatureBytes \o words \o idsPad \o ids \o strData
                      \o gap
                      \o ToBytes(Len(map), WordLen)
                      \o Concat([ k \in 1..Len(map) |->
                                    MapEntryBytes(map[k]) ])
    IN  [ bytes |-> DEX_MAGIC \o DEX_MAGIC_VERS
                      \o adler32(body, 1, Len(body))
                      \o body \o [ i \in 1..trailing |-> 255 ],
          len   |-> fileSize + trailing,
          strings |-> strs, edit |-> edit, fileSize |-> fileSize ]

DexFiles ==
    { MakeDex(strs, edit, trailing) :
        strs \in StringTables, edit \in MapEdits,
        trailing \in 0..MaxTrailing }
    \cup
    { MakeDex(strs, damage, trailing) :
        strs \in DamagedTables, damage \in Damages,
        trailing \in 0..MaxTrailing }

\* bitwise exclusive or of two bytes
RECURSIVE Xor(_, _, _)
Xor(a, b, bits) ==
    IF bits = 0 THEN 0
    ELSE ((a + b) % 2) + 2 * Xor(a \div 2, b \div 2, bits - 1)

(***************************************************************************)
(* DEX verification runs.                                                  *)
(***************************************************************************)
\* a file is mapped for a host to verify
LoadDex ==
    /\ dexFile = NoDexFile
    /\ \E file \in DexFiles, host \in HostOrders :
          /\ dexFile' = file
          /\ hostOrder' = host
    /\ dexFlip' = NoFlip
    /\ dexRun' = NoRun
    /\ UNCHANGED dexFrame

\* one byte of a file the verifier accepted is changed before the file is
\* verified again
FlipByte ==
    /\ dexRun.done /\ dexRun.okay
    /\ ~dexFlip.flipped
    /\ \E pos \in 0..(dexFile.len - 1), mask \in FlipMasks :
          /\ dexFile' = [ dexFile EXCEPT
                            !.bytes[pos + 1] = Xor(@, mask, 8) ]
          /\ dexFlip' = [ flipped |-> TRUE, pos |-> pos, mask |-> mask ]
    /\ dexRun' = NoRun
    /\ UNCHANGED hostOrder
    /\ UNCHANGED dexFrame

\* dexFixByteOrdering(addr, len)
dexFixByteOrdering ==
    /\ dexFile # NoDexFile
    /\ ~dexRun.done
    /\ \E allocFails \in BOOLEAN, wild \in WildReads :
       \E r1 \in { CheckMagicAndChecksum(dexFile.bytes, dexFile.len, wild) } :
       \E r2 \in { SwapHeaderStep(r1, dexFile.len) } :
       \E r3 \in { SwapMapStep(r2, dexFile.len, allocFails) } :
       \E r4 \in { SwapEverythingStep(r3, dexFile.len) } :
          dexRun' = CrossVerifyStep(r4, dexFile.len)
    /\ UNCHANGED << hostOrder, dexFile, dexFlip >>
    /\ UNCHANGED dexFrame

NextDex ==
    \/ LoadDex
    \/ FlipByte
    \/ dexFixByteOrdering

SpecDex == InitRegistry /\ [][NextDex]_vars

(***************************************************************************)
(* The DEX verifier: class_def_item and class_data_item.                   *)
(***************************************************************************)
kDexTypeClassDataItem == 8192
kDexTypeCodeItem      == 8193

\* kDexNoIndex is 0xffffffff: no u2 class index equals it
kDexNoIndex == U4Max

ACC_FIELD_MASK ==
    { "ACC_PUBLIC", "ACC_PRIVATE", "ACC_PROTECTED", "ACC_STATIC",
      "ACC_FINAL", "ACC_VOLATILE", "ACC_TRANSIENT", "ACC_SYNTHETIC",
      "ACC_ENUM" }

ACC_METHOD_MASK ==
    { "ACC_PUBLIC", "ACC_PRIVATE", "ACC_PROTECTED", "ACC_STATIC",
      "ACC_FINAL", "ACC_SYNCHRONIZED", "ACC_BRIDGE", "ACC_VARARGS",
      "ACC_NATIVE", "ACC_ABSTRACT", "ACC_STRICT", "ACC_SYNTHETIC",
      "ACC_CONSTRUCTOR", "ACC_DECLARED_SYNCHRONIZED" }

\* dexGetFieldId(pDexFile, fieldIdx)->classIdx: pFieldIds[fieldIdx] is read
\* without a range check, so an index past the table reads what lies beyond
dexGetFieldId(file, fieldIdx) ==
    IF fieldIdx < Len(FieldClassIdx) THEN FieldClassIdx[fieldIdx + 1]
    ELSE file.beyond

\* dexGetMethodId(pDexFile, methodIdx)->classIdx
dexGetMethodId(file, methodIdx) ==
    IF methodIdx < Len(MethodClassIdx) THEN MethodClassIdx[methodIdx + 1]
    ELSE file.beyond

\* dexDataMapVerify0Ok: offset 0 is fine, any other must be registered
dexDataMapVerify0Ok(pDataMap, offset, type) ==
    offset = 0 \/ dexDataMapVerify(pDataMap, offset, type)

\* verifyFields
verifyFields(fields, expectStatic) ==
    \A i \in 1..Len(fields) :
        /\ fields[i].fieldIdx < Len(FieldClassIdx)
        /\ ("ACC_STATIC" \in fields[i].accessFlags) = expectStatic
        /\ fields[i].accessFlags \subseteq ACC_FIELD_MASK

\* verifyMethods
verifyMethods(methods, expectDirect) ==
    \A i \in 1..Len(methods) :
        LET accessFlags == methods[i].accessFlags
            isDirect ==
                accessFlags \cap { "ACC_STATIC", "ACC_PRIVATE",
                                   "ACC_CONSTRUCTOR" } # {}
            expectCode ==
                accessFlags \cap { "ACC_NATIVE", "ACC_ABSTRACT" } = {}
            isSynchronized == "ACC_SYNCHRONIZED" \in accessFlags
            allowSynchronized == "ACC_NATIVE" \in accessFlags
        IN  /\ methods[i].methodIdx < Len(MethodClassIdx)
            /\ isDirect = expectDirect
            /\ accessFlags \subseteq ACC_METHOD_MASK
            /\ ~(isSynchronized /\ ~allowSynchronized)
            /\ IF expectCode THEN methods[i].codeOff # 0
               ELSE methods[i].codeOff = 0

\* verifyClassDataItem0: the result of the instance-field check is dropped
\* and "okay" still holds the verdict on the static fields
verifyClassDataItem0(classData) ==
    LET okay1 == verifyFields(classData.staticFields, TRUE)
        unused == verifyFields(classData.instanceFields, FALSE)
    IN  IF ~okay1 THEN FALSE
        ELSE IF ~okay1 THEN FALSE
        ELSE IF ~verifyMethods(classData.directMethods, TRUE) THEN FALSE
        ELSE verifyMethods(classData.virtualMethods, FALSE)

\* findFirstClassDataDefiner
findFirstClassDataDefiner(file, classData) ==
    IF Len(classData.staticFields) # 0
    THEN dexGetFieldId(file, classData.staticFields[1].fieldIdx)
    ELSE IF Len(classData.instanceFields) # 0
    THEN dexGetFieldId(file, classData.instanceFields[1].fieldIdx)
    ELSE IF Len(classData.directMethods) # 0
    THEN dexGetMethodId(file, classData.directMethods[1].methodIdx)
    ELSE IF Len(classData.virtualMethods) # 0
    THEN dexGetMethodId(file, classData.virtualMethods[1].methodIdx)
    ELSE kDexNoIndex

\* verifyFieldDefiner: "crash" when the id is read from unmapped memory
verifyFieldDefiner(file, definingClass, fieldIdx) ==
    LET classIdx == dexGetFieldId(file, fieldIdx)
    IN  IF classIdx = Unmapped THEN "crash"
        ELSE IF classIdx = definingClass THEN "okay" ELSE "fail"

verifyMethodDefiner_Okay(file, definingClass, methodIdx) == "okay"

\* verifyMethodDefiner
verifyMethodDefiner(file, definingClass, methodIdx) ==
    LET classIdx == dexGetMethodId(file, methodIdx)
    IN  IF classIdx = Unmapped THEN "crash"
        ELSE IF classIdx = definingClass THEN "okay" ELSE "fail"

\* verifyClassDataIsForDef; the item at a registered class-data offset has
\* been decoded by the structural pass already
verifyClassDataIsForDef(file, offset, definerIdx) ==
    IF offset = 0 THEN "okay"
    ELSE LET dataDefiner == findFirstClassDataDefiner(file, file.classData)
         IN  IF dataDefiner = Unmapped THEN "crash"
             ELSE IF dataDefiner = definerIdx \/ dataDefiner = kDexNoIndex
             THEN "okay"
             ELSE "fail"

\* crossVerifyClassDefItem for a definition with a class descriptor, no
\* superclass, no interfaces, no annotations and no static values
crossVerifyClassDefItem(file, pDataMap) ==
    LET item == file.classDef
    IN  IF ~dexDataMapVerify0Ok(pDataMap, item.classDataOff,
                                kDexTypeClassDataItem)
        THEN "fail"
        ELSE verifyClassDataIsForDef(file, item.classDataOff, item.classIdx)

\* the loops of crossVerifyClassDataItem run from the last entry of a list
\* to its first while okay: the verdict after entries i, i - 1, .. 1
RECURSIVE FieldsFromLast(_, _, _, _)
FieldsFromLast(file, definingClass, fields, i) ==
    IF i = 0 THEN "okay"
    ELSE LET okay == verifyFieldDefiner(file, definingClass,
                                        fields[i].fieldIdx)
         IN  IF okay # "okay" THEN okay
             ELSE FieldsFromLast(file, definingClass, fields, i - 1)

RECURSIVE MethodsFromLast(_, _, _, _, _)
MethodsFromLast(file, pDataMap, definingClass, methods, i) ==
    IF i = 0 THEN "okay"
    ELSE LET okay ==
                 IF ~dexDataMapVerify0Ok(pDataMap, methods[i].codeOff,
                                         kDexTypeCodeItem)
                 THEN "fail"
                 ELSE verifyMethodDefiner(file, definingClass,
                                          methods[i].methodIdx)
         IN  IF okay # "okay" THEN okay
             ELSE MethodsFromLast(file, pDataMap, definingClass, methods,
                                  i - 1)

\* the first verdict of a list of verdicts that is not "okay"
RECURSIVE FirstNotOkay(_)
FirstNotOkay(verdicts) ==
    IF verdicts = << >> THEN "okay"
    ELSE IF Head(verdicts) # "okay" THEN Head(verdicts)
    ELSE FirstNotOkay(Tail(verdicts))

\* crossVerifyClassDataItem
crossVerifyClassDataItem(file, pDataMap) ==
    LET classData == file.classData
        definingClass == findFirstClassDataDefiner(file, classData)
    IN  IF definingClass = Unmapped THEN "crash"
        ELSE FirstNotOkay(<<
            FieldsFromLast(file, definingClass, classData.staticFields,
                           Len(classData.staticFields)),
            FieldsFromLast(file, definingClass, classData.instanceFields,
                           Len(classData.instanceFields)),
            MethodsFromLast(file, pDataMap, definingClass,
                            classData.directMethods,
                            Len(classData.directMethods)),
            MethodsFromLast(file, pDataMap, definingClass,
                            classData.virtualMethods,
                            Len(classData.virtualMethods)) >>)

\* the run after a cross-item visitor: on to the next stage, rejected, or
\* never returning
AfterVisit(run, verdict, next) ==
    IF verdict = "okay"
    THEN [ run EXCEPT !.stage = next, !.done = next = "accepted",
                      !.returned = next = "accepted",
                      !.okay = next = "accepted" ]
    ELSE [ run EXCEPT !.done = TRUE, !.returned = verdict = "fail",
                      !.okay = FALSE ]

(***************************************************************************)
(* Verification of a class definition with its class-data item.            *)
(***************************************************************************)
\* the member lists of a class-data item: at most MaxMembers in all
ClassDatas(n1, n2, n3, n4) ==
    [ staticFields : [ 1..n1 -> FieldEntries ],
      instanceFields : [ 1..n2 -> FieldEntries ],
      directMethods : [ 1..n3 -> MethodEntries ],
      virtualMethods : [ 1..n4 -> MethodEntries ] ]

\* whether some read of the cross-item pass can leave the field table
ReadsBeyond(classData) ==
    \E i \in 1..Len(classData.instanceFields) :
        classData.instanceFields[i].fieldIdx >= Len(FieldClassIdx)

\* a file with one class definition, one class-data item and one code item
LoadClassFile ==
    /\ ~classFile.loaded
    /\ \E n1, n2, n3, n4 \in 0..MaxMembers :
          /\ n1 + n2 + n3 + n4 <= MaxMembers
          /\ \E classData \in ClassDatas(n1, n2, n3, n4),
                classIdx \in ClassIdxs,
                classDataOff \in { 0, DataLayout.classData, DataLayout.code },
                beyond \in ClassIdxs \cup { Unmapped } :
                /\ ReadsBeyond(classData) \/ beyond = Unmapped
                /\ classFile' =
                       [ loaded |-> TRUE,
                         classDef |-> [ classIdx |-> classIdx,
                                        classDataOff |-> classDataOff ],
                         classData |-> classData, beyond |-> beyond ]
    /\ classRun' = [ NoClassRun EXCEPT !.stage = "structural" ]
    /\ UNCHANGED classFrame

\* structural pass: intraVerifyClassDataItem on the class-data item, and the
\* registration of the data items by iterateSectionWithOptionalUpdate
intraVerifyClassDataItem ==
    /\ classRun.stage = "structural" /\ ~classRun.done
    /\ classRun' =
           IF ~verifyClassDataItem0(classFile.classData)
           THEN [ classRun EXCEPT !.done = TRUE, !.returned = TRUE,
                                  !.okay = FALSE ]
           ELSE [ classRun EXCEPT
                    !.stage = "class_def",
                    !.pDataMap =
                        dexDataMapAdd(
                            dexDataMapAdd(@, DataLayout.classData,
                                          kDexTypeClassDataItem),
                            DataLayout.code, kDexTypeCodeItem) ]
    /\ UNCHANGED << classFile, classFrame >>

\* cross-item pass, class_def section
crossVerifyClassDef ==
    /\ classRun.stage = "class_def" /\ ~classRun.done
    /\ classRun' =
           AfterVisit(classRun,
                      crossVerifyClassDefItem(classFile, classRun.pDataMap),
                      "class_data")
    /\ UNCHANGED << classFile, classFrame >>

\* cross-item pass, class_data section
crossVerifyClassData ==
    /\ classRun.stage = "class_data" /\ ~classRun.done
    /\ classRun' =
           AfterVisit(classRun,
                      crossVerifyClassDataItem(classFile, classRun.pDataMap),
                      "accepted")
    /\ UNCHANGED << classFile, classFrame >>

NextClass ==
    \/ LoadClassFile
    \/ intraVerifyClassDataItem
    \/ crossVerifyClassDef
    \/ crossVerifyClassData

SpecClass == InitRegistry /\ [][NextClass]_vars

(***************************************************************************)
(* The DEX verifier: code_item, tries and catch handlers.                  *)
(***************************************************************************)
\* ---- DexCode: u2 registersSize, insSize, outsSize, triesSize, then
\* ---- u4 debugInfoOff, insnsSize, then u2 insns[insnsSize]
SizeofDexCode == 4 * HalfLen + 2 * WordLen
TriesSizeOff  == 3 * HalfLen
InsnsSizeOff  == 4 * HalfLen + WordLen

\* ---- DexTry: u4 startAddr, u2 insnCount, u2 handlerOff
SizeofDexTry == WordLen + 2 * HalfLen

\* sizes of a handler and of the handler list stay below this
HandlerLimit == 65536

RECURSIVE Pow128(_)
Pow128(n) == IF n = 0 THEN 1 ELSE Leb128Group * Pow128(n - 1)

\* readAndVerifySignedLeb128: the unsigned groups, sign-extended from bit 6
\* of the last byte
readAndVerifySignedLeb128(buf, off, len) ==
    LET u == readAndVerifyUnsignedLeb128(buf, off, len, 1)
    IN  IF ~u.okay THEN u
        ELSE IF ByteAt(buf, u.next - 1) % Leb128Group >= Leb128Group \div 2
        THEN [ u EXCEPT !.value = @ - Pow128(u.next - off) ]
        ELSE u

\* dexGetTries: the tries follow the instructions, four-byte aligned
dexGetTries(insnsEnd) == AlignUp(insnsEnd, WordLen)

\* dexGetCatchHandlerData: the handler list follows the tries
dexGetCatchHandlerData(tries, triesSize) == tries + triesSize * SizeofDexTry

\* the typed catches of one handler in setHandlerOffsAndVerify: the offset
\* after "size" (typeIdx, addr) pairs, or -1 when a check fails
RECURSIVE HandlerPairs(_, _, _, _, _)
HandlerPairs(buf, len, ptr, size, insnsSize) ==
    IF size = 0 THEN ptr
    ELSE LET typeIdx == readAndVerifyUnsignedLeb128(buf, ptr, len, 1)
         IN  IF ~typeIdx.okay \/ typeIdx.value >= Len(TypeIds) THEN -1
             ELSE LET addr == readAndVerifyUnsignedLeb128(buf, typeIdx.next,
                                                          len, 1)
                  IN  IF ~addr.okay \/ addr.value >= insnsSize THEN -1
                      ELSE HandlerPairs(buf, len, addr.next, size - 1,
                                        insnsSize)

\* the catch-all address of a handler, when it has one
HandlerCatchAll(buf, len, ptr, catchAll, insnsSize) ==
    IF ptr < 0 \/ ~catchAll THEN ptr
    ELSE LET addr == readAndVerifyUnsignedLeb128(buf, ptr, len, 1)
         IN  IF ~addr.okay \/ addr.value >= insnsSize THEN -1
             ELSE addr.next

\* setHandlerOffsAndVerify: the offset after the last handler (0 when a
\* check fails) and the handlerOffs array filled so far
RECURSIVE setHandlerOffsAndVerify(_, _, _, _, _, _, _)
setHandlerOffsAndVerify(buf, len, handlersBase, insnsSize, offset, handlersLeft, handlerOffs) ==
    IF handlersLeft = 0
    THEN [ endOffset |-> offset, handlerOffs |-> handlerOffs ]
    ELSE
    LET size == readAndVerifySignedLeb128(buf, handlersBase + offset, len)
        failed == [ endOffset |-> 0, handlerOffs |-> handlerOffs ]
    IN  IF ~size.okay THEN failed
        ELSE IF size.value < -HandlerLimit \/ size.value > HandlerLimit
        THEN failed
        ELSE
        LET catchAll == size.value <= 0
            count == IF catchAll THEN -size.value ELSE size.value
            ptr == HandlerCatchAll(buf, len,
                       HandlerPairs(buf, len, size.next, count, insnsSize),
                       catchAll, insnsSize)
        IN  IF ptr < 0
            THEN [ endOffset |-> 0,
                   handlerOffs |-> Append(handlerOffs, offset) ]
            ELSE setHandlerOffsAndVerify(buf, len, handlersBase, insnsSize,
                     ptr - handlersBase, handlersLeft - 1,
                     Append(handlerOffs, offset))

\* DexTry fields swapped in place
SwapTry(buf, tries) ==
    SWAP_FIELD(
        SWAP_FIELD(SWAP_FIELD(buf, tries, WordLen), tries + WordLen, HalfLen),
        tries + WordLen + HalfLen, HalfLen)

TryOutOfOrder_Never(startAddr, lastEnd) == FALSE

\* "Out-of-order try": tries->startAddr < lastEnd
TryOutOfOrder(startAddr, lastEnd) == startAddr < lastEnd

\* the checks of swapTriesAndCatches on one swapped try
TryOkay(buf, tries, lastEnd, insnsSize, handlerOffs) ==
    LET startAddr  == Field(buf, tries, WordLen)
        insnCount  == Field(buf, tries + WordLen, HalfLen)
        handlerOff == Field(buf, tries + WordLen + HalfLen, HalfLen)
    IN  /\ ~TryOutOfOrder(startAddr, lastEnd)
        /\ startAddr < insnsSize
        /\ \E i \in 1..Len(handlerOffs) : handlerOff = handlerOffs[i]
        /\ startAddr + insnCount <= insnsSize

\* the while (count--) loop of swapTriesAndCatches: the buffer and whether
\* every try passed; a failing try has been swapped already
RECURSIVE SwapTries(_, _, _, _, _, _)

SwapTries_Checked(buf, tries, count, lastEnd, insnsSize, handlerOffs) ==
    IF ~TryOkay(buf, tries, lastEnd, insnsSize, handlerOffs)
    THEN Fail(buf, "try")
    ELSE SwapTries(buf, tries + SizeofDexTry, count - 1,
                   Field(buf, tries, WordLen)
                       + Field(buf, tries + WordLen, HalfLen),
                   insnsSize, handlerOffs)

SwapTries(buf, tries, count, lastEnd, insnsSize, handlerOffs) ==
    IF count = 0 THEN Pass(buf)
    ELSE SwapTries_Checked(SwapTry(buf, tries), tries, count, lastEnd,
                           insnsSize, handlerOffs)

\* swapTriesAndCatches
swapTriesAndCatches(buf, len, tries, triesSize, insnsSize) ==
    LET encodedHandlers == dexGetCatchHandlerData(tries, triesSize)
        handlersSize ==
            readAndVerifyUnsignedLeb128(buf, encodedHandlers, len, 1)
    IN  IF ~handlersSize.okay THEN ItemNull(buf)
        ELSE IF handlersSize.value = 0 \/ handlersSize.value >= HandlerLimit
        THEN ItemNull(buf)
        ELSE
        LET walked == setHandlerOffsAndVerify(buf, len, encodedHandlers,
                          insnsSize, handlersSize.next - encodedHandlers,
                          handlersSize.value, << >>)
        IN  IF walked.endOffset = 0 THEN ItemNull(buf)
            ELSE IF ~checkPtrRange(len, tries,
                                   tries + triesSize * SizeofDexTry)
            THEN ItemNull(buf)
            ELSE LET swapped == SwapTries(buf, tries, triesSize, 0,
                                          insnsSize, walked.handlerOffs)
                 IN  IF ~swapped.okay THEN ItemNull(swapped.buf)
                     ELSE ItemEnd(swapped.buf,
                                  encodedHandlers + walked.endOffset)

\* the SWAP_FIELD lines of swapCodeItem
SwapCodeHeader(buf, ptr) ==
    SWAP_FIELD(
        SWAP_FIELD(
            SWAP_FIELD(
                SWAP_FIELD(
                    SWAP_FIELD(SWAP_FIELD(buf, ptr, HalfLen),
                               ptr + HalfLen, HalfLen),
                    ptr + 2 * HalfLen, HalfLen),
                ptr + TriesSizeOff, HalfLen),
            ptr + 4 * HalfLen, WordLen),
        ptr + InsnsSizeOff, WordLen)

\* while (count--) { *insns = SWAP2(*insns); insns++; }
RECURSIVE SwapInsns(_, _, _)
SwapInsns(buf, insns, count) ==
    IF count = 0 THEN buf
    ELSE SwapInsns(SWAP_FIELD(buf, insns, HalfLen), insns + HalfLen,
                   count - 1)

\* swapCodeItem after the instructions: the spacer and the tries. A spacer
\* that lies past the end of the file is read all the same.
swapCodeItem_Tries(buf, len, ptr, insnsEnd, wild) ==
    LET triesSize == Field(buf, ptr + TriesSizeOff, HalfLen)
        insnsSize == Field(buf, ptr + InsnsSizeOff, WordLen)
        spacer ==
            IF insnsEnd + HalfLen <= len
            THEN IF Field(buf, insnsEnd, HalfLen) = 0 THEN "zero"
                 ELSE "nonzero"
            ELSE wild
    IN  IF triesSize = 0 THEN ItemEnd(buf, insnsEnd)
        ELSE IF insnsEnd % WordLen # 0 /\ spacer = "crash"
        THEN ItemCrash(buf)
        ELSE IF insnsEnd % WordLen # 0 /\ spacer = "nonzero"
        THEN ItemNull(buf)
        ELSE swapTriesAndCatches(buf, len, dexGetTries(insnsEnd), triesSize,
                                 insnsSize)

\* swapCodeItem after the header: CHECK_LIST_SIZE and the instructions
swapCodeItem_Insns(buf, len, ptr, wild) ==
    LET count == Field(buf, ptr + InsnsSizeOff, WordLen)
        insns == ptr + SizeofDexCode
    IN  IF count > U4Max \div HalfLen THEN ItemNull(buf)
        ELSE IF ~checkPtrRange(len, insns, insns + count * HalfLen)
        THEN ItemNull(buf)
        ELSE swapCodeItem_Tries(SwapInsns(buf, insns, count), len, ptr,
                                insns + count * HalfLen, wild)

\* swapCodeItem
swapCodeItem(buf, len, ptr, wild) ==
    IF ~checkPtrRange(len, ptr, ptr + SizeofDexCode) THEN ItemNull(buf)
    ELSE swapCodeItem_Insns(SwapCodeHeader(buf, ptr), len, ptr, wild)

(***************************************************************************)
(* Code items to verify.                                                   *)
(***************************************************************************)
\* unsigned and signed LEB128 of a small value: one byte
Uleb(value) == << value >>
Sleb(value) == << IF value < 0 THEN value + Leb128Group ELSE value >>

\* encoded_catch_handler: size, (type_idx, addr) pairs, catch_all_addr
EncodeHandler(h) ==
    Sleb(h.size)
        \o Concat([ i \in 1..Len(h.pairs) |->
                      Uleb(h.pairs[i][1]) \o Uleb(h.pairs[i][2]) ])
        \o (IF h.size <= 0 THEN Uleb(h.catchAllAddr) ELSE << >>)

\* encoded_catch_handler_list
EncodeHandlers(handlers) ==
    Uleb(Len(handlers))
        \o Concat([ i \in 1..Len(handlers) |-> EncodeHandler(handlers[i]) ])

\* handler lists: one typed catch; a typed catch with a catch-all and then
\* a bare catch-all; a catch-all whose address lies behind every instruction
HandlerLists ==
    { << [ size |-> 1, pairs |-> << << 0, 1 >> >>, catchAllAddr |-> 0 ] >>,
      << [ size |-> -1, pairs |-> << << 1, 0 >> >>, catchAllAddr |-> 1 ],
         [ size |-> 0, pairs |-> << >>, catchAllAddr |-> 2 ] >>,
      << [ size |-> 0, pairs |-> << >>, catchAllAddr |-> 9 ] >> }

\* try_item values to choose from: the handler offsets are those of the
\* first and of the second handler of the two-handler list
TryItems ==
    [ startAddr : { 0, 2, 3 }, insnCount : { 0, 2 }, handlerOff : { 1, 5 } ]

EncodeTry(t) ==
    ToBytes(t.startAddr, WordLen) \o ToBytes(t.insnCount, HalfLen)
        \o ToBytes(t.handlerOff, HalfLen)

\* a code_item as a DEX file stores it; "cut" drops what follows the
\* instructions although triesSize promises tries
MakeCode(insnsSize, tries, handlers, cut) ==
    LET header ==
            ToBytes(1, HalfLen) \o ToBytes(0, HalfLen) \o ToBytes(0, HalfLen)
                \o ToBytes(Len(tries), HalfLen) \o ToBytes(0, WordLen)
                \o ToBytes(insnsSize, WordLen)
        insns == Concat([ i \in 1..insnsSize |-> ToBytes(18, HalfLen) ])
        spacer == Zeros(AlignUp(Len(header) + Len(insns), WordLen)
                            - (Len(header) + Len(insns)))
        tail ==
            IF tries = << >> \/ cut THEN << >>
            ELSE spacer
                   \o Concat([ i \in 1..Len(tries) |-> EncodeTry(tries[i]) ])
                   \o EncodeHandlers(handlers)
        bytes == header \o insns \o tail
    IN  [ loaded |-> TRUE, bytes |-> bytes, len |-> Len(bytes),
          insnsSize |-> insnsSize, tries |-> tries,
          handlers |-> IF tries = << >> THEN << >> ELSE handlers ]

(***************************************************************************)
(* Verification of a code item.                                            *)
(***************************************************************************)
\* a code item with an odd number of instructions and up to MaxTries tries,
\* or with an even number and at most one try, or one cut short after its
\* instructions
LoadCode ==
    /\ ~codeFile.loaded
    /\ \E n \in 0..MaxTries, handlers \in HandlerLists,
          insnsSize \in { 3, 4 }, cut \in BOOLEAN :
          /\ insnsSize % HalfLen = 0 => n <= 1
          /\ cut => n = 1 /\ insnsSize % HalfLen # 0 /\ Len(handlers) = 1
          /\ \E tries \in [ 1..n -> TryItems ] :
             \E file \in { MakeCode(insnsSize, tries, handlers, cut) } :
             \E host \in HostOrders :
                /\ codeFile' = file
                /\ hostOrder' = host
    /\ codeRun' = NoCodeRun
    /\ UNCHANGED codeFrame

\* structural pass: the code_item visitor
swapCode ==
    /\ codeFile.loaded /\ ~codeRun.done
    /\ \E wild \in { "zero", "nonzero", "crash" } :
       \E r \in { swapCodeItem(codeFile.bytes, codeFile.len, 0, wild) } :
          codeRun' = [ done |-> TRUE, returned |-> r.next # Unmapped,
                       okay |-> r.okay, buf |-> r.buf, next |-> r.next ]
    /\ UNCHANGED << hostOrder, codeFile, codeFrame >>

NextCode == LoadCode \/ swapCode

SpecCode == InitRegistry /\ [][NextCode]_vars

(***************************************************************************)
(* Verification of a string-data item.                                     *)
(***************************************************************************)
\* a file that ends with a string-data item: utf16_size and a payload; the
\* file ends with the payload or one byte before its end, and that byte is
\* then mapped memory behind the file
LoadString ==
    /\ ~strFile.loaded
    /\ \E utf16Size \in Utf16Sizes, n \in 0..MaxPayload, beyond \in 0..1 :
       \E payload \in [ 1..n -> StringBytes ] :
          /\ beyond <= n
          /\ strFile' = [ loaded |-> TRUE,
                          bytes |-> << utf16Size >> \o payload,
                          len |-> 1 + n - beyond ]
    /\ strRun' = NoStrRun
    /\ UNCHANGED strFrame

\* structural pass: the string_data_item visitor on the item at offset 0
intraVerifyStringData ==
    /\ strFile.loaded /\ ~strRun.done
    /\ \E v \in { StringDataVerdict(strFile.bytes, strFile.len, 0) },
          r \in { intraVerifyStringDataItem(strFile.bytes, strFile.len, 0) } :
          strRun' = [ done |-> TRUE, returned |-> r.next # Unmapped,
                      okay |-> r.okay, next |-> r.next, why |-> v.why ]
    /\ UNCHANGED << strFile, strFrame >>

NextString == LoadString \/ intraVerifyStringData

SpecString == InitRegistry /\ [][NextString]_vars


(***************************************************************************)
(* Debugger: local-variable slot remapping.                                *)
(***************************************************************************)
\* tweakSlot
tweakSlot(slot, name) ==
    IF name = "this" THEN 0
    ELSE IF slot = 0 THEN kSlot0Sub
    ELSE slot

\* untweakSlot; the method is the one of the frame's save area
untweakSlot(slot, method) ==
    IF slot = kSlot0Sub THEN 0
    ELSE IF slot = 0 THEN method.registersSize - method.insSize
    ELSE slot

\* a method and one entry of its local-variable table
ChooseLocal ==
    /\ ~slotLocal.chosen
    /\ \E registersSize \in { r + 1 : r \in LocalRegs },
          insSize \in 0..MaxLowReg, reg \in LocalRegs, name \in LocalNames :
          /\ insSize <= registersSize
          /\ reg < registersSize
          /\ slotLocal' = [ chosen |-> TRUE, registersSize |-> registersSize,
                            insSize |-> insSize, reg |-> reg, name |-> name ]
    /\ slotRun' = NoSlotRun
    /\ UNCHANGED slotFrame

\* variableTableCb: reg = (u2) tweakSlot(reg, name) goes into the reply
variableTableCb ==
    /\ slotLocal.chosen /\ slotRun.stage = "none"
    /\ slotRun' = [ slotRun EXCEPT
                      !.stage = "reported",
                      !.reported =
                          tweakSlot(slotLocal.reg, slotLocal.name) % 65536 ]
    /\ UNCHANGED << slotLocal, slotFrame >>

\* dvmDbgGetLocalValue / dvmDbgSetLocalValue: the debugger names the slot it
\* was told, or slot 0, or kSlot0Sub
dvmDbgGetLocalValue ==
    /\ slotRun.stage = "reported"
    /\ \E slot \in { slotRun.reported, 0, kSlot0Sub } :
          slotRun' = [ slotRun EXCEPT
                         !.stage = "resolved",
                         !.requested = slot,
                         !.resolved = untweakSlot(slot, slotLocal) ]
    /\ UNCHANGED << slotLocal, slotFrame >>

NextSlots == ChooseLocal \/ variableTableCb \/ dvmDbgGetLocalValue

SpecSlots == InitRegistry /\ [][NextSlots]_vars


(***************************************************************************)
(* Debugger: reading and writing a window of an array.                     *)
(***************************************************************************)
\* a + b leaves the range of int
IntSumOverflows(a, b) ==
    \/ a > 0 /\ b > IntMax - a
    \/ a < 0 /\ b < IntMin - a

\* the outcomes of "firstIndex + count > (int) length": the comparison of
\* the sum where it fits in an int, either outcome where it does not
WindowExceeds(firstIndex, count, length) ==
    IF IntSumOverflows(firstIndex, count) THEN { TRUE, FALSE }
    ELSE { firstIndex + count > length }

\* copyValuesToBE / copyValuesFromBE and the loops over references: the
\* elements firstIndex + i for 0 <= i < count; memcpy takes a negative count
\* as a size
ArrayCopy(req) ==
    [ first |-> req.firstIndex,
      touched |-> IF req.count > 0 THEN req.count ELSE 0,
      wild |-> req.kind = "byte" /\ req.count < 0 ]

ArrayWindow(req, op) ==
    { IF exceeds
        THEN [ stage |-> "done", op |-> op, result |-> FALSE,
               first |-> 0, touched |-> 0, wild |-> FALSE ]
        ELSE [ stage |-> "done", op |-> op, result |-> TRUE ]
                 @@ ArrayCopy(req)
      : exceeds \in WindowExceeds(req.firstIndex, req.count, req.length) }

\* an array and the window a debugger packet names
ChooseWindow ==
    /\ ~arrReq.chosen
    /\ \E kind \in ArrayKinds, length \in 0..MaxArrayLen,
          firstIndex \in WindowInts, count \in WindowInts :
          arrReq' = [ chosen |-> TRUE, kind |-> kind, length |-> length,
                      firstIndex |-> firstIndex, count |-> count ]
    /\ arrRun' = NoArrRun
    /\ UNCHANGED arrFrame

dvmDbgOutputArray ==
    /\ arrReq.chosen /\ arrRun.stage = "none"
    /\ arrRun' \in ArrayWindow(arrReq, "output")
    /\ UNCHANGED << arrReq, arrFrame >>

dvmDbgSetArrayElements ==
    /\ arrReq.chosen /\ arrRun.stage = "none"
    /\ arrRun' \in ArrayWindow(arrReq, "set")
    /\ UNCHANGED << arrReq, arrFrame >>

NextArrays == ChooseWindow \/ dvmDbgOutputArray \/ dvmDbgSetArrayElements

SpecArrays == InitRegistry /\ [][NextArrays]_vars


(***************************************************************************)
(* XML parser: the feed entry points and the callbacks of one parse call.  *)
(***************************************************************************)
\* XML_Parse is running under one of the entry points
Parsing == parseCtx.stage = "parsing"

\* where the engine stands in the document: before the root element, where
\* the DOCTYPE and its declarations are, or inside an element, where
\* character data is
InProlog == Parsing /\ openTags = << >>
InContent == Parsing /\ \E i \in 1..Len(openTags) : openTags[i] = "element"

\* env->CallVoidMethod(javaParser, method, ...): the listener is told
ListenerCalled(kind) ==
    [ tick |-> 1 - lastEvent.tick, kind |-> kind, uri |-> NoHandle,
      localName |-> NoHandle, qName |-> NoHandle ]

\* the last callback that found an exception pending when it was entered
Entered(callback) ==
    IF xmlFault THEN [ parseLog EXCEPT !.entered = callback, !.pending = TRUE ]
    ELSE parseLog

\* mutant: the buffer is filled and the method invoked whatever is pending
bufferAndInvoke_Always(pending, fault) ==
    [ invoked |-> TRUE, fault |-> pending \/ fault # "none" ]

\* fillBuffer: -1 when ensureCapacity returns NULL, else the number of
\* UTF-16 units decoded into the buffer
fillBuffer(fault) == IF fault = "grow" THEN -1 ELSE TextUnits

\* bufferAndInvoke: bail out if an exception is pending; fillBuffer (whose
\* ensureCapacity may fail); CallVoidMethod with what fillBuffer returned
bufferAndInvoke(pending, fault) ==
    IF pending THEN [ invoked |-> FALSE, fault |-> TRUE ]
    ELSE [ invoked |-> TRUE, fault |-> fault # "none",
           length |-> fillBuffer(fault) ]

\* startCdata, endCdata, endDtd: bail out if an exception is pending;
\* CallVoidMethod
InvokeUnlessPending(pending, throws) ==
    IF pending THEN [ invoked |-> FALSE, fault |-> TRUE ]
    ELSE [ invoked |-> TRUE, fault |-> throws ]

\* handleExternalEntity, unparsedEntityDecl, notationDecl: bail out if an
\* exception is pending, and after every NewStringUTF; CallVoidMethod
AllocAndInvoke(pending, fault) ==
    IF pending THEN [ invoked |-> FALSE, fault |-> TRUE ]
    ELSE IF fault = "alloc" THEN [ invoked |-> FALSE, fault |-> TRUE ]
    ELSE [ invoked |-> TRUE, fault |-> fault = "throws" ]

\* a callback that touches neither the intern table nor the name stack
PlainCallback(callback, r) ==
    /\ parseLog' = [ Entered(callback) EXCEPT
                       !.unbuffered =
                           @ \/ (r.invoked /\ "length" \in DOMAIN r
                                           /\ r.length = -1) ]
    /\ xmlFault' = r.fault
    /\ lastEvent' = IF r.invoked THEN ListenerCalled(callback) ELSE lastEvent
    /\ UNCHANGED << internedStrings, globalRefs, lastIntern, firstHandle,
                    processNamespaces, stringStack, openTags, openEvents >>
    /\ UNCHANGED parseFrame

text ==
    /\ InContent
    /\ \E fault \in BufferFaults :
          PlainCallback("text", bufferAndInvoke(xmlFault, fault))
    /\ UNCHANGED parseCtx

comment ==
    /\ Parsing
    /\ \E fault \in BufferFaults :
          PlainCallback("comment", bufferAndInvoke(xmlFault, fault))
    /\ UNCHANGED parseCtx

startCdata ==
    /\ InContent
    /\ \E throws \in BOOLEAN :
          PlainCallback("startCdata", InvokeUnlessPending(xmlFault, throws))
    /\ UNCHANGED parseCtx

endCdata ==
    /\ InContent
    /\ \E throws \in BOOLEAN :
          PlainCallback("endCdata", InvokeUnlessPending(xmlFault, throws))
    /\ UNCHANGED parseCtx

endDtd ==
    /\ InProlog
    /\ \E throws \in BOOLEAN :
          PlainCallback("endDtd", InvokeUnlessPending(xmlFault, throws))
    /\ UNCHANGED parseCtx

unparsedEntityDecl ==
    /\ InProlog
    /\ \E fault \in DeclFaults :
          PlainCallback("unparsedEntityDecl", AllocAndInvoke(xmlFault, fault))
    /\ UNCHANGED parseCtx

notationDecl ==
    /\ InProlog
    /\ \E fault \in DeclFaults :
          PlainCallback("notationDecl", AllocAndInvoke(xmlFault, fault))
    /\ UNCHANGED parseCtx

\* context->env = env; context->object = object; then XML_Parse runs
appendEnter ==
    [ env |-> TRUE, object |-> TRUE, stage |-> "parsing", threw |-> FALSE ]

\* mutant: the entry point returns at once when the engine reports an error
appendReturn_ErrorLeaves(ctx, parsed, pending) ==
    IF parsed
    THEN [ ctx EXCEPT !.env = FALSE, !.object = FALSE, !.stage = "returned" ]
    ELSE [ ctx EXCEPT !.stage = "returned", !.threw = ~pending ]

\* if (!XML_Parse(...) && !env->ExceptionCheck()) jniThrowExpatException;
\* release; context->object = NULL; context->env = NULL;
appendReturn(ctx, parsed, pending) ==
    [ ctx EXCEPT !.env = FALSE, !.object = FALSE, !.stage = "returned",
                 !.threw = ~parsed /\ ~pending ]

\* the listener of an external entity may feed an entity parser, which
\* shares the parsing context: the feed sets env and object on entry and
\* leaves both NULL on return
ListenerFeeds(ctx, feeds) ==
    IF feeds
    THEN [ ctx EXCEPT !.env = appendReturn(appendEnter, TRUE, FALSE).env,
                      !.object = appendReturn(appendEnter, TRUE, FALSE).object ]
    ELSE ctx

\* mutant: the context is left as the listener left it
RestoreHandles_Skipped(ctx, env, object) == ctx

\* parsingContext->env = env; parsingContext->object = object;
RestoreHandles(ctx, env, object) ==
    [ ctx EXCEPT !.env = env, !.object = object ]

\* handleExternalEntity: env and object are read on entry; after the
\* listener returns both are put back
handleExternalEntity ==
    /\ Parsing
    /\ \E fault \in DeclFaults, feeds \in BOOLEAN :
          \E r \in { AllocAndInvoke(xmlFault, fault) } :
              /\ xmlFault' = r.fault
              /\ lastEvent' = IF r.invoked
                                THEN ListenerCalled("handleExternalEntity")
                                ELSE lastEvent
              /\ parseLog' =
                    [ Entered("handleExternalEntity") EXCEPT
                        !.fed = @ \/ (r.invoked /\ feeds) ]
              /\ parseCtx' = IF r.invoked
                               THEN RestoreHandles(
                                        ListenerFeeds(parseCtx, feeds),
                                        parseCtx.env, parseCtx.object)
                               ELSE parseCtx
    /\ UNCHANGED << internedStrings, globalRefs, lastIntern, firstHandle,
                    processNamespaces, stringStack, openTags, openEvents >>
    /\ UNCHANGED parseFrame

\* startDtd: three names are interned, with a bail-out after each
startDtd ==
    /\ InProlog
    /\ parseLog' = Entered("startDtd")
    /\ IF xmlFault
       THEN UNCHANGED << internedStrings, globalRefs, xmlFault, lastEvent >>
       ELSE \E fault \in { "none", "intern", "bucket", "throws" } :
              \E c1 \in { InternIn(Ctx, DtdName, fault) } :
              \E c2 \in { IF c1.fault THEN c1
                           ELSE InternIn(c1, DtdPublicId, fault) } :
              \E c3 \in { IF c2.fault THEN c2
                           ELSE InternIn(c2, DtdSystemId, fault) } :
                  /\ internedStrings' = c3.buckets
                  /\ globalRefs' = c3.refs
                  /\ xmlFault' = (c3.fault \/ fault = "throws")
                  /\ lastEvent' = IF c3.fault THEN lastEvent
                                   ELSE ListenerCalled("startDtd")
    /\ UNCHANGED << lastIntern, firstHandle, processNamespaces, stringStack,
                    openTags, openEvents, parseCtx >>
    /\ UNCHANGED parseFrame

\* processingInstruction: the target is interned, the data is a new string
processingInstruction ==
    /\ Parsing
    /\ parseLog' = Entered("processingInstruction")
    /\ IF xmlFault
       THEN UNCHANGED << internedStrings, globalRefs, xmlFault, lastEvent >>
       ELSE \E fault \in { "none", "intern", "bucket", "alloc", "throws" } :
              \E c1 \in { InternIn(Ctx, PiTarget, fault) } :
              LET bails == c1.fault \/ fault = "alloc"
              IN  /\ internedStrings' = c1.buckets
                  /\ globalRefs' = c1.refs
                  /\ xmlFault' = (bails \/ fault = "throws")
                  /\ lastEvent' = IF bails THEN lastEvent
                                   ELSE ListenerCalled("processingInstruction")
    /\ UNCHANGED << lastIntern, firstHandle, processNamespaces, stringStack,
                    openTags, openEvents, parseCtx >>
    /\ UNCHANGED parseFrame

\* the element and namespace callbacks, inside a parse call
parse_startElement ==
    Parsing /\ Len(openTags) < MaxParseDepth /\ startElement

parse_endElement == Parsing /\ endElement

parse_startNamespace ==
    Parsing /\ Len(openTags) < MaxParseDepth /\ startNamespace

parse_endNamespace == Parsing /\ endNamespace

\* the three entry points differ in how they reach the characters handed to
\* XML_Parse and in the isFinal flag, not in what they do to the context
append_Enter ==
    /\ parseCtx' = appendEnter
    /\ parseLog' = NoParseLog
    /\ UNCHANGED xmlVars
    /\ UNCHANGED parseFrame

appendString == parseCtx.stage = "idle" /\ append_Enter

appendCharacters == parseCtx.stage = "idle" /\ append_Enter

appendBytes == parseCtx.stage = "idle" /\ append_Enter

\* XML_Parse returns, with or without an error of its own, and the entry
\* point runs to its end
append_Return ==
    /\ Parsing
    /\ \E parsed \in BOOLEAN :
          /\ parseCtx' = appendReturn(parseCtx, parsed, xmlFault)
          /\ xmlFault' = (xmlFault \/ parseCtx'.threw)
    /\ UNCHANGED << internedStrings, globalRefs, lastIntern, firstHandle,
                    nameVars, parseLog >>
    /\ UNCHANGED parseFrame

NextParse ==
    \/ appendString
    \/ appendCharacters
    \/ appendBytes
    \/ append_Return
    \/ parse_startElement
    \/ parse_endElement
    \/ parse_startNamespace
    \/ parse_endNamespace
    \/ text
    \/ comment
    \/ startCdata
    \/ endCdata
    \/ startDtd
    \/ endDtd
    \/ processingInstruction
    \/ handleExternalEntity
    \/ unparsedEntityDecl
    \/ notationDecl

SpecParse == InitRegistry /\ [][NextParse]_vars


(***************************************************************************)
(* Debugger: posting location and exception events.                        *)
(***************************************************************************)
\* registerObject(obj, type, reg) as one step: the identifier it returns
\* and the table it leaves
registerObject(table, obj, type, reg) ==
    [ id |-> registerObject_Id(obj, type),
      table |-> IF obj # NULL /\ reg /\ debuggerConnected
                THEN HashAdd(table, registerObject_Id(obj, type))
                ELSE table ]

\* TT_INTERFACE for an interface, TT_CLASS otherwise; the class identifier
\* is made with classObjectToRefTypeId, which registers the class
Location(table, clazz, method, idx) ==
    LET c == registerObject(table, clazz, kRefTypeId, TRUE)
    IN  [ loc |-> [ typeTag |-> IF clazz \in InterfaceClasses
                                THEN "TT_INTERFACE"
                                ELSE "TT_CLASS",
                    classId |-> c.id, methodId |-> method, idx |-> idx ],
          table |-> c.table ]

\* mutant: "this" is converted with registration before the event is posted
PostLocationThis_Reg(table, clazz, thisPtr, delivered) ==
    registerObject(table, thisPtr, kObjectId, TRUE)

\* objectToObjectIdNoReg(thisPtr) for the event and, if the event was
\* delivered, classObjectToRefTypeId(method->clazz) and
\* objectToObjectId(thisPtr)
PostLocationThis(table, clazz, thisPtr, delivered) ==
    [ id |-> registerObject(table, thisPtr, kObjectId, FALSE).id,
      table |-> IF delivered
                THEN registerObject(
                       registerObject(table, clazz, kRefTypeId, TRUE).table,
                       thisPtr, kObjectId, TRUE).table
                ELSE table ]

\* dvmDbgPostLocationEvent; whether the event is delivered is decided by
\* the wire-protocol engine
dvmDbgPostLocationEvent ==
    /\ registryAlloc
    /\ \E clazz \in ObjAddrs, method \in PostMethods, pcOffset \in RelPcs,
          thisPtr \in ObjAddrs \cup { NULL }, delivered \in BOOLEAN :
          \E l \in { Location(dbgRegistry, clazz, method, pcOffset) } :
          \E t \in { PostLocationThis(l.table, clazz, thisPtr, delivered) } :
              /\ dbgRegistry' = t.table
              /\ postEvent' = [ kind |-> "location", clazz |-> clazz,
                                thisPtr |-> thisPtr, exception |-> NULL,
                                catchRelPc |-> 0, delivered |-> delivered,
                                connected |-> debuggerConnected,
                                before |-> dbgRegistry ]
              /\ postSent' = [ NoPostSent EXCEPT !.loc = l.loc,
                                                 !.thisId = t.id ]
    /\ UNCHANGED << registryAlloc, debuggerConnected, debuggerActive, regLock,
                    pc, regArg, regFound, marked, markCursor >>
    /\ UNCHANGED << invVars, xmlVars >>
    /\ UNCHANGED postFrame

\* the catch location: zeroed when catchRelPc < 0
CatchLocation(table, clazz, method, catchRelPc) ==
    IF catchRelPc < 0 THEN [ loc |-> ZeroLocation, table |-> table ]
    ELSE Location(table, clazz, method, catchRelPc)

\* mutant: the thrown object is converted with registration
PostExceptionIds_Reg(table, exception, exceptionClazz, thisObj) ==
    LET e == registerObject(table, exception, kObjectId, TRUE)
        c == registerObject(e.table, exceptionClazz, kRefTypeId, TRUE)
        t == registerObject(c.table, thisObj, kObjectId, TRUE)
    IN  [ exceptionId |-> e.id, exceptionClassId |-> c.id, thisId |-> t.id,
          table |-> t.table ]

\* objectToObjectIdNoReg(exception), classObjectToRefTypeId(exception->clazz)
\* and objectToObjectId(thisObj), the arguments of dvmJdwpPostException
PostExceptionIds(table, exception, exceptionClazz, thisObj) ==
    LET e == registerObject(table, exception, kObjectId, FALSE)
        c == registerObject(e.table, exceptionClazz, kRefTypeId, TRUE)
        t == registerObject(c.table, thisObj, kObjectId, TRUE)
    IN  [ exceptionId |-> e.id, exceptionClassId |-> c.id, thisId |-> t.id,
          table |-> t.table ]

\* dvmDbgPostException; thisObj is what getThisObject(throwFp) returns: NULL
\* for a static or native method.  The thrown object is no class object,
\* but it may be the "this" of the frame that throws it.
dvmDbgPostException ==
    /\ registryAlloc
    /\ \E throwClazz \in ObjAddrs, catchClazz \in ObjAddrs,
          exception \in ObjAddrs, exceptionClazz \in ObjAddrs,
          thisObj \in ObjAddrs \cup { NULL }, method \in PostMethods,
          throwRelPc \in RelPcs, catchRelPc \in CatchRelPcs :
          /\ exception \notin { throwClazz, catchClazz, exceptionClazz }
          /\ \E l \in { Location(dbgRegistry, throwClazz, method,
                                 throwRelPc) } :
             \E c \in { CatchLocation(l.table, catchClazz, method,
                                      catchRelPc) } :
             \E ids \in { PostExceptionIds(c.table, exception,
                                           exceptionClazz, thisObj) } :
                 /\ dbgRegistry' = ids.table
                 /\ postEvent' = [ kind |-> "exception",
                                   clazz |-> throwClazz, thisPtr |-> thisObj,
                                   exception |-> exception,
                                   catchRelPc |-> catchRelPc,
                                   delivered |-> FALSE,
                                   connected |-> debuggerConnected,
                                   before |-> dbgRegistry ]
                 /\ postSent' = [ loc |-> l.loc, catchLoc |-> c.loc,
                                  thisId |-> ids.thisId,
                                  exceptionId |-> ids.exceptionId,
                                  exceptionClassId |-> ids.exceptionClassId ]
    /\ UNCHANGED << registryAlloc, debuggerConnected, debuggerActive, regLock,
                    pc, regArg, regFound, marked, markCursor >>
    /\ UNCHANGED << invVars, xmlVars >>
    /\ UNCHANGED postFrame

NextPost ==
    \/ dvmDebuggerStartup
    \/ dvmDbgConnected_Assert
    \/ dvmDbgConnected_Set
    \/ dvmDbgPostLocationEvent
    \/ dvmDbgPostException

SpecPost == InitRegistry /\ [][NextPost]_vars


(***************************************************************************)
(* The DEX verifier: cross-item checks of proto_ids, field_ids and         *)
(* method_ids.                                                             *)
(***************************************************************************)
\* dexParameterIteratorNextIndex: the type index at the cursor, kDexNoIndex
\* past the end of the list
dexParameterIteratorNextIndex(params, cursor) ==
    IF cursor < Len(params) THEN params[cursor + 1] ELSE kDexNoIndex

\* mutant: the earlier list is tested for its end first
RECURSIVE ParamsBadOrder_EarlierFirst(_, _, _)
ParamsBadOrder_EarlierFirst(params0, params1, cursor) ==
    LET idx0 == dexParameterIteratorNextIndex(params0, cursor)
        idx1 == dexParameterIteratorNextIndex(params1, cursor)
    IN  IF idx0 = kDexNoIndex THEN FALSE
        ELSE IF idx1 = kDexNoIndex THEN TRUE
        ELSE IF idx0 < idx1 THEN FALSE
        ELSE IF idx0 > idx1 THEN TRUE
        ELSE ParamsBadOrder_EarlierFirst(params0, params1, cursor + 1)

\* the for (;;) loop of crossVerifyProtoIdItem: badOrder when it is left
RECURSIVE ParamsBadOrder(_, _, _)
ParamsBadOrder(params0, params1, cursor) ==
    LET idx0 == dexParameterIteratorNextIndex(params0, cursor)
        idx1 == dexParameterIteratorNextIndex(params1, cursor)
    IN  IF idx1 = kDexNoIndex THEN TRUE
        ELSE IF idx0 = kDexNoIndex THEN FALSE
        ELSE IF idx0 < idx1 THEN FALSE
        ELSE IF idx0 > idx1 THEN TRUE
        ELSE ParamsBadOrder(params0, params1, cursor + 1)

\* crossVerifyProtoIdItem; descOk: the parameter list is registered and the
\* shorty matches the descriptors; hasPrev: state->previousItem != NULL
crossVerifyProtoIdItem(item, item0, hasPrev, descOk) ==
    IF ~descOk THEN "descriptor"
    ELSE IF ~hasPrev THEN "okay"
    ELSE IF item0.returnTypeIdx > item.returnTypeIdx
    THEN "Out-of-order proto_id return types"
    ELSE IF item0.returnTypeIdx = item.returnTypeIdx
              /\ ParamsBadOrder(item0.params, item.params, 0)
    THEN "Out-of-order proto_id arguments"
    ELSE "okay"

\* one of the first two comparisons of the ordering check: "done" and
\* "bogus" after it
CompareIdx(flags, idx0, idx) ==
    IF flags.done THEN flags
    ELSE IF idx0 > idx THEN [ done |-> TRUE, bogus |-> TRUE ]
    ELSE IF idx0 < idx THEN [ done |-> TRUE, bogus |-> flags.bogus ]
    ELSE flags

LastIdxBogus_Greater(idx0, idx) == idx0 > idx

\* the last comparison: item0->typeIdx >= item->typeIdx, and the same on
\* protoIdx
LastIdxBogus(idx0, idx) == idx0 >= idx

\* the ordering check of crossVerifyFieldIdItem and
\* crossVerifyMethodIdItem, "last" being typeIdx or protoIdx
OutOfOrderIds(item0, item, last0, last) ==
    LET f1 == CompareIdx([ done |-> FALSE, bogus |-> FALSE ],
                         item0.classIdx, item.classIdx)
        f2 == CompareIdx(f1, item0.nameIdx, item.nameIdx)
    IN  IF f2.done THEN f2.bogus ELSE LastIdxBogus(last0, last)

\* crossVerifyFieldIdItem; descOk: the class and type descriptors and the
\* name are valid
crossVerifyFieldIdItem(item, item0, hasPrev, descOk) ==
    IF ~descOk THEN "descriptor"
    ELSE IF hasPrev /\ OutOfOrderIds(item0, item, item0.typeIdx, item.typeIdx)
    THEN "Out-of-order field_ids"
    ELSE "okay"

\* crossVerifyMethodIdItem
crossVerifyMethodIdItem(item, item0, hasPrev, descOk) ==
    IF ~descOk THEN "descriptor"
    ELSE IF hasPrev
              /\ OutOfOrderIds(item0, item, item0.protoIdx, item.protoIdx)
    THEN "Out-of-order method_ids"
    ELSE "okay"

\* the map names a section of an index table, with its items
LoadIdTable ==
    /\ idTable.kind = "none"
    /\ \E n \in 1..MaxIds :
          \/ \E items \in [ 1..n -> ProtoItems ] :
                idTable' = [ kind |-> "proto", items |-> items ]
          \/ \E items \in [ 1..n -> FieldItems ] :
                idTable' = [ kind |-> "field", items |-> items ]
          \/ \E items \in [ 1..n -> MethodItems ] :
                idTable' = [ kind |-> "method", items |-> items ]
    /\ idRun' = NoIdRun
    /\ UNCHANGED idsFrame

\* iterateSection after a visit of item idRun.next + 1: previousItem moves
\* on, or the iteration stops with the failure
AfterIdVisit(verdict, descOk) ==
    IF verdict = "okay"
    THEN [ idRun EXCEPT !.next = @ + 1, !.descOk = descOk,
                        !.done = idRun.next + 1 = Len(idTable.items),
                        !.okay = idRun.next + 1 = Len(idTable.items) ]
    ELSE [ idRun EXCEPT !.done = TRUE, !.okay = FALSE, !.descOk = descOk,
                        !.failedAt = verdict ]

\* the item to visit and previousItem (the item itself when there is none)
IdItem == idTable.items[idRun.next + 1]
IdItem0 == idTable.items[IF idRun.next = 0 THEN 1 ELSE idRun.next]

\* iterateSection(.., crossVerifyProtoIdItem, ..): a visit of the next item
iterateProtoIds ==
    /\ idTable.kind = "proto"
    /\ ~idRun.done
    /\ \E descOk \in BOOLEAN :
          idRun' = AfterIdVisit(
                     crossVerifyProtoIdItem(IdItem, IdItem0, idRun.next > 0,
                                            descOk), descOk)
    /\ UNCHANGED idTable
    /\ UNCHANGED idsFrame

\* iterateSection(.., crossVerifyFieldIdItem, ..)
iterateFieldIds ==
    /\ idTable.kind = "field"
    /\ ~idRun.done
    /\ \E descOk \in BOOLEAN :
          idRun' = AfterIdVisit(
                     crossVerifyFieldIdItem(IdItem, IdItem0, idRun.next > 0,
                                            descOk), descOk)
    /\ UNCHANGED idTable
    /\ UNCHANGED idsFrame

\* iterateSection(.., crossVerifyMethodIdItem, ..)
iterateMethodIds ==
    /\ idTable.kind = "method"
    /\ ~idRun.done
    /\ \E descOk \in BOOLEAN :
          idRun' = AfterIdVisit(
                     crossVerifyMethodIdItem(IdItem, IdItem0, idRun.next > 0,
                                             descOk), descOk)
    /\ UNCHANGED idTable
    /\ UNCHANGED idsFrame

NextIds ==
    \/ LoadIdTable
    \/ iterateProtoIds
    \/ iterateFieldIds
    \/ iterateMethodIds

SpecIds == InitRegistry /\ [][NextIds]_vars


(***************************************************************************)
(* The DEX verifier: the class_defs section.                               *)
(***************************************************************************)
kDexTypeTypeList == 4097
kDexTypeEncodedArrayItem == 8197
kDexTypeAnnotationsDirectoryItem == 8198

\* DexClassDef: eight u4 fields, in this order
ClassDefFields ==
    << "classIdx", "accessFlags", "superclassIdx", "interfacesOff",
       "sourceFileIdx", "annotationsOff", "classDataOff", "staticValuesOff" >>

SizeofDexClassDef == WordLen * Len(ClassDefFields)

\* the offset of a field of item k (from 1) of the section
ClassDefOff(k, name) ==
    SizeofDexClassDef * (k - 1)
      + WordLen * ((CHOOSE i \in DOMAIN ClassDefFields :
                      ClassDefFields[i] = name) - 1)

\* item->field as the host reads it
ClassDef(buf, k, name) == Field(buf, ClassDefOff(k, name), WordLen)

\* pHeader->typeIdsSize and pHeader->stringIdsSize
DefTypeIdsSize == Cardinality(IdxRange)
DefStringIdsSize == Cardinality(IdxRange)

\* where the data section keeps the one encoded_array_item
DefLayout == [ encodedArray |-> 112 ]

\* SWAP_FIELD4 on the fields of item k named in "names", in order
RECURSIVE SwapClassDefFields(_, _, _)
SwapClassDefFields(buf, k, names) ==
    IF names = << >> THEN buf
    ELSE SwapClassDefFields(
           SWAP_FIELD(buf, ClassDefOff(k, Head(names)), WordLen),
           k, Tail(names))

\* CHECK_INDEX and CHECK_INDEX_OR_NOINDEX
CHECK_INDEX(field, limit) == field < limit
CHECK_INDEX_OR_NOINDEX(field, limit) == field = kDexNoIndex \/ field < limit

\* swapClassDefItem on item k: it returns at the first index out of range
swapClassDefItem(buf, k) ==
    LET b1 == SwapClassDefFields(buf, k, << "classIdx" >>)
        b3 == SwapClassDefFields(b1, k, << "accessFlags", "superclassIdx" >>)
        b5 == SwapClassDefFields(b3, k, << "interfacesOff",
                                           "sourceFileIdx" >>)
        b7 == SwapClassDefFields(b5, k, << "annotationsOff",
                                           "classDataOff" >>)
    IN  IF ~CHECK_INDEX(ClassDef(b1, k, "classIdx"), DefTypeIdsSize)
        THEN Fail(b1, "classIdx")
        ELSE IF ~CHECK_INDEX_OR_NOINDEX(ClassDef(b3, k, "superclassIdx"),
                                        DefTypeIdsSize)
        THEN Fail(b3, "superclassIdx")
        ELSE IF ~CHECK_INDEX_OR_NOINDEX(ClassDef(b5, k, "sourceFileIdx"),
                                        DefStringIdsSize)
        THEN Fail(b5, "sourceFileIdx")
        ELSE Pass(b7)

\* the structural iteration over the section from item k on
RECURSIVE SwapClassDefs(_, _, _)
SwapClassDefs(buf, k, count) ==
    IF k > count THEN Pass(buf)
    ELSE LET item == swapClassDefItem(buf, k)
         IN  IF ~item.okay THEN item
             ELSE SwapClassDefs(item.buf, k + 1, count)

\* memset(definedClassBits, 0, arraySize * sizeof(u4)); the bitmap is the
\* set of the type indexes whose bit is on
memset_Skipped(definedClassBits) == definedClassBits

memset(definedClassBits) == {}

DefinedClassBit_Never(definedClassBits, typeIdx) == FALSE

\* the former value of the bit that setDefinedClassBit returns
DefinedClassBit(definedClassBits, typeIdx) == typeIdx \in definedClassBits

\* setDefinedClassBit: the bitmap it leaves
setDefinedClassBit(definedClassBits, typeIdx) ==
    definedClassBits \cup { typeIdx }

\* crossVerifyClassDefItem on item k of a section without interfaces,
\* class data or annotations; classTypes: the type indexes whose descriptor
\* is a class descriptor
crossVerifyClassDefItem_Bits(buf, k, bits, pDataMap, classTypes) ==
    LET classIdx == ClassDef(buf, k, "classIdx")
        set      == setDefinedClassBit(bits, classIdx)
        verdict(v) == [ verdict |-> v, bits |-> set ]
    IN  IF classIdx \notin classTypes
        THEN [ verdict |-> "Invalid class", bits |-> bits ]
        ELSE IF DefinedClassBit(bits, classIdx)
        THEN verdict("Duplicate class definition")
        ELSE IF ~dexDataMapVerify0Ok(pDataMap,
                                     ClassDef(buf, k, "interfacesOff"),
                                     kDexTypeTypeList)
        THEN verdict("interfaces offset")
        ELSE IF ~dexDataMapVerify0Ok(pDataMap,
                                     ClassDef(buf, k, "annotationsOff"),
                                     kDexTypeAnnotationsDirectoryItem)
        THEN verdict("annotations offset")
        ELSE IF ~dexDataMapVerify0Ok(pDataMap,
                                     ClassDef(buf, k, "classDataOff"),
                                     kDexTypeClassDataItem)
        THEN verdict("class data offset")
        ELSE IF ~dexDataMapVerify0Ok(pDataMap,
                                     ClassDef(buf, k, "staticValuesOff"),
                                     kDexTypeEncodedArrayItem)
        THEN verdict("static values offset")
        ELSE IF ClassDef(buf, k, "superclassIdx") # kDexNoIndex
                  /\ ClassDef(buf, k, "superclassIdx") \notin classTypes
        THEN verdict("Invalid superclass")
        ELSE verdict("okay")

(***************************************************************************)
(* Verification of a class_defs section.                                   *)
(***************************************************************************)
\* kDexNoIndex as a file stores it
NoIndexBytes == << 255, 255, 255, 255 >>

\* a public class without superclass, interfaces, source file,
\* annotations or class data
ClassDefBytes(classIdx, staticValuesOff) ==
    ToBytes(classIdx, WordLen) \o ToBytes(1, WordLen) \o NoIndexBytes
      \o ToBytes(0, WordLen) \o NoIndexBytes \o ToBytes(0, WordLen)
      \o ToBytes(0, WordLen) \o ToBytes(staticValuesOff, WordLen)

\* the definitions of a file: a type index, the last out of range, and no
\* static values or the encoded array of the data section
DefItems ==
    [ classIdx : 0..DefTypeIdsSize,
      staticValuesOff : { 0, DefLayout.encodedArray } ]

\* a file with a class_defs section is mapped for a host to verify
LoadDefs ==
    /\ ~defFile.loaded
    /\ \E n \in 1..MaxDefs, host \in HostOrders,
          classTypes \in { IdxRange, { 0 } } :
       \E items \in [ 1..n -> DefItems ] :
          /\ hostOrder' = host
          /\ defFile' =
               [ loaded |-> TRUE,
                 bytes |-> Concat([ k \in 1..n |->
                             ClassDefBytes(items[k].classIdx,
                                           items[k].staticValuesOff) ]),
                 count |-> n, classTypes |-> classTypes ]
          /\ defRun' = [ NoDefRun EXCEPT !.stage = "structural",
                                         !.calls = 1,
                                         !.buf = defFile'.bytes ]
    /\ UNCHANGED << dexFile, dexFlip, dexRun >>
    /\ UNCHANGED defFrame

\* structural pass: swapClassDefItem on every item, then the data section,
\* whose encoded array is registered
swapClassDefs ==
    /\ defRun.stage = "structural" /\ ~defRun.done
    /\ \E r \in { SwapClassDefs(defRun.buf, 1, defFile.count) } :
          defRun' =
            IF ~r.okay
            THEN [ defRun EXCEPT !.done = TRUE, !.okay = FALSE,
                                 !.failedAt = r.failedAt, !.buf = r.buf ]
            ELSE [ defRun EXCEPT
                     !.stage = "cross", !.buf = r.buf,
                     !.pDataMap =
                        dexDataMapAdd([ NoDataMap EXCEPT
                                          !.allocated = TRUE,
                                          !.capacity = 1 ],
                                      DefLayout.encodedArray,
                                      kDexTypeEncodedArrayItem) ]
    /\ UNCHANGED << hostOrder, dexFile, dexFlip, dexRun, defFile >>
    /\ UNCHANGED defFrame

\* crossVerifyEverything at the class_defs entry of the map: the bitmap is
\* an array on the stack, holding whatever the stack held, until memset
crossVerifyClassDefs_Begin ==
    /\ defRun.stage = "cross" /\ ~defRun.done
    /\ \E definedClassBits \in SUBSET IdxRange :
          defRun' = [ defRun EXCEPT !.stage = "class_defs", !.next = 0,
                                    !.bits = memset(definedClassBits) ]
    /\ UNCHANGED << hostOrder, dexFile, dexFlip, dexRun, defFile >>
    /\ UNCHANGED defFrame

\* iterateSection(.., crossVerifyClassDefItem, ..): a visit of the next
\* item; after the last, or at a failure, pDefinedClassBits is NULL
iterateClassDefs ==
    /\ defRun.stage = "class_defs" /\ ~defRun.done
    /\ \E v \in { crossVerifyClassDefItem_Bits(defRun.buf, defRun.next + 1,
                                               defRun.bits, defRun.pDataMap,
                                               defFile.classTypes) } :
          defRun' =
            IF v.verdict # "okay"
            THEN [ defRun EXCEPT !.done = TRUE, !.okay = FALSE,
                                 !.failedAt = v.verdict, !.bits = NoBits ]
            ELSE IF defRun.next + 1 = defFile.count
            THEN [ defRun EXCEPT !.next = @ + 1, !.done = TRUE,
                                 !.okay = TRUE, !.bits = NoBits ]
            ELSE [ defRun EXCEPT !.next = @ + 1, !.bits = v.bits ]
    /\ UNCHANGED << hostOrder, dexFile, dexFlip, dexRun, defFile >>
    /\ UNCHANGED defFrame

\* dexFixByteOrdering is called once more on the buffer, which a
\* little-endian host has left as it was
dexFixByteOrdering_Again ==
    /\ defRun.done /\ defRun.calls = 1
    /\ hostOrder = "little"
    /\ defRun' = [ NoDefRun EXCEPT !.stage = "structural", !.calls = 2,
                                   !.buf = defRun.buf ]
    /\ UNCHANGED << hostOrder, dexFile, dexFlip, dexRun, defFile >>
    /\ UNCHANGED defFrame

NextDefs ==
    \/ LoadDefs
    \/ swapClassDefs
    \/ crossVerifyClassDefs_Begin
    \/ iterateClassDefs
    \/ dexFixByteOrdering_Again

SpecDefs == InitRegistry /\ [][NextDefs]_vars


(***************************************************************************)
(* Debugger: the address set of a source line.                             *)
(***************************************************************************)
\* dvmAddressSetSet: the bit of an offset inside the set is turned on
dvmAddressSetSet(set, setSize, toSet) ==
    IF toSet < setSize THEN set \cup { toSet } ELSE set

\* for (i = from; i < to; i++) dvmAddressSetSet(pSet, i)
SetRange(set, setSize, from, to) ==
    set \cup { i \in from..(to - 1) : i < setSize }

\* mutant: every entry of the line moves the start of the run
addressSetCb_Restart(context, set, setSize, line, address, lineNum) ==
    IF lineNum = line
    THEN [ context |-> [ lastAddressValid |-> TRUE,
                         lastAddress |-> address ],
           set |-> set ]
    ELSE IF context.lastAddressValid
    THEN [ context |-> [ context EXCEPT !.lastAddressValid = FALSE ],
           set |-> SetRange(set, setSize, context.lastAddress, address) ]
    ELSE [ context |-> context, set |-> set ]

\* addressSetCb
addressSetCb(context, set, setSize, line, address, lineNum) ==
    IF lineNum = line
    THEN [ context |-> IF ~context.lastAddressValid
                       THEN [ lastAddressValid |-> TRUE,
                              lastAddress |-> address ]
                       ELSE context,
           set |-> set ]
    ELSE IF context.lastAddressValid
    THEN [ context |-> [ context EXCEPT !.lastAddressValid = FALSE ],
           set |-> SetRange(set, setSize, context.lastAddress, address) ]
    ELSE [ context |-> context, set |-> set ]

\* whether the addresses of the entries ascend
Ascending(entries) ==
    \A i \in 1..(Len(entries) - 1) :
        entries[i].address <= entries[i + 1].address

\* dvmAddressSetForLine up to the call of dexDecodeDebugInfo: the set is
\* empty and the context zeroed
dvmAddressSetForLine_Call ==
    /\ lineRun.stage = "none"
    /\ \E n \in 0..MaxLineEntries, line \in LineNums,
          insnsSize \in InsnsSizes :
       \E entries \in [ 1..n -> [ address : LineAddrs, lineNum : LineNums ] ] :
          /\ Ascending(entries)
          /\ lineReq' = [ entries |-> entries, line |-> line,
                          insnsSize |-> insnsSize ]
    /\ lineRun' = [ NoLineRun EXCEPT !.stage = "decoding" ]
    /\ UNCHANGED lineFrame

\* dexDecodeDebugInfo hands the next position entry to the callback
dexDecodeDebugInfo_Position ==
    /\ lineRun.stage = "decoding"
    /\ lineRun.next < Len(lineReq.entries)
    /\ \E e \in { lineReq.entries[lineRun.next + 1] } :
       \E r \in { addressSetCb(lineRun.context, lineRun.set,
                               lineReq.insnsSize, lineReq.line,
                               e.address, e.lineNum) } :
          lineRun' = [ lineRun EXCEPT !.context = r.context, !.set = r.set,
                                      !.next = @ + 1 ]
    /\ UNCHANGED lineReq
    /\ UNCHANGED lineFrame

\* dvmAddressSetForLine after dexDecodeDebugInfo: a run that is open goes
\* on to insnsSize
dvmAddressSetForLine_Return ==
    /\ lineRun.stage = "decoding"
    /\ lineRun.next = Len(lineReq.entries)
    /\ lineRun' =
         [ lineRun EXCEPT
             !.stage = "returned",
             !.set = IF lineRun.context.lastAddressValid
                     THEN SetRange(@, lineReq.insnsSize,
                                   lineRun.context.lastAddress,
                                   lineReq.insnsSize)
                     ELSE @ ]
    /\ UNCHANGED lineReq
    /\ UNCHANGED lineFrame

NextLine ==
    \/ dvmAddressSetForLine_Call
    \/ dexDecodeDebugInfo_Position
    \/ dvmAddressSetForLine_Return

SpecLine == InitRegistry /\ [][NextLine]_vars


(***************************************************************************)
(* Debugger: counting and fetching the frames of a thread.                 *)
(***************************************************************************)
\* threadObjToThread: the position in gDvm.threadList of the first thread
\* with the thread object, 0 for NULL
threadObjToThread(list, threadObj) ==
    IF \E i \in 1..Len(list) : list[i].threadObj = threadObj
    THEN CHOOSE i \in 1..Len(list) :
            /\ list[i].threadObj = threadObj
            /\ \A j \in 1..(i - 1) : list[j].threadObj # threadObj
    ELSE 0

\* the while loop of dvmDbgGetThreadFrameCount from the frame at position at
RECURSIVE CountFrames(_, _, _)
CountFrames(chain, at, count) ==
    IF at > Len(chain) THEN count
    ELSE CountFrames(chain, at + 1,
                     IF ~chain[at] THEN count + 1 ELSE count)

\* what dvmDbgGetThreadFrameCount returns from bail when no thread matched
FrameCountBail(count) == count

\* dvmDbgGetThreadFrameCount
GetThreadFrameCount(list, threadId) ==
    LET thread == threadObjToThread(list, threadId)
    IN  IF thread = 0 THEN FrameCountBail(0)
        ELSE CountFrames(list[thread].frames, 1, 0)

\* the while loop of dvmDbgGetThreadFrame: the position on the chain of
\* frame num, 0 when the chain ends first
RECURSIVE FindFrame(_, _, _, _)
FindFrame(chain, at, count, num) ==
    IF at > Len(chain) THEN 0
    ELSE IF ~chain[at]
    THEN IF count = num THEN at
         ELSE FindFrame(chain, at + 1, count + 1, num)
    ELSE FindFrame(chain, at + 1, count, num)

\* dvmDbgGetThreadFrame: whether it returns true
GetThreadFrame(list, threadId, num) ==
    LET thread == threadObjToThread(list, threadId)
    IN  IF thread = 0 THEN FALSE
        ELSE FindFrame(list[thread].frames, 1, 0, num) # 0

\* the threads of the VM
StartThreads ==
    /\ frameCall.op = "none"
    /\ threadList = << >>
    /\ \E n \in ThreadCounts :
       \E list \in [ 1..n -> [ threadObj : ListedThreadObjs,
                               frames : FrameChains ] ] :
          threadList' = list
    /\ frameCall' = [ frameCall EXCEPT !.op = "idle" ]
    /\ UNCHANGED frameFrame

dvmDbgGetThreadFrameCount ==
    /\ frameCall.op = "idle"
    /\ \E threadId \in ListedThreadObjs \cup { StrayThreadObj } :
          frameCall' = [ op |-> "count", threadId |-> threadId, num |-> 0,
                         result |-> GetThreadFrameCount(threadList,
                                                        threadId) ]
    /\ UNCHANGED threadList
    /\ UNCHANGED frameFrame

dvmDbgGetThreadFrame ==
    /\ frameCall.op = "idle"
    /\ \E threadId \in ListedThreadObjs \cup { StrayThreadObj },
          num \in (-1)..MaxFrames :
          frameCall' = [ op |-> "frame", threadId |-> threadId, num |-> num,
                         result |-> IF GetThreadFrame(threadList, threadId,
                                                      num)
                                    THEN 1 ELSE 0 ]
    /\ UNCHANGED threadList
    /\ UNCHANGED frameFrame

NextFrames ==
    \/ StartThreads
    \/ dvmDbgGetThreadFrameCount
    \/ dvmDbgGetThreadFrame

SpecFrames == InitRegistry /\ [][NextFrames]_vars

(***************************************************************************)
(* Properties of attribute lookup.                                         *)
(***************************************************************************)
\* the lookup just made found the attribute at (1-based) position i
FoundAt(i) == lastLookup.found = i - 1

\* the first position whose attribute has this local name, as an index
FirstWithLocal(local) ==
    LET hits == { i \in 1..Len(attributes) : attributes[i].local = local }
    IN  IF hits = {} THEN -1
        ELSE (CHOOSE i \in hits : \A j \in hits : i <= j) - 1

PrefixedQueries ==
    /\ lastLookup.called /\ ~lastLookup.failed
    => \A i \in 1..Len(attributes) :
         (attributes[i].prefix = Html /\ attributes[i].local = H1)
         => /\ lastLookup.qName = Html \o << Colon >> \o H1
                => (lastLookup.found >= 0 /\ lastLookup.found <= i - 1)
            /\ lastLookup.qName = Xyz \o << Colon >> \o H1
                => ~FoundAt(i)

\* C14 as stated: a lookup of "html:h1" finds an attribute with prefix "html"
\* and local name "h1", a lookup of "xyz:h1" does not, and a lookup of a name
\* without a colon finds only attributes that have no prefix.
C14_Original ==
    /\ PrefixedQueries
    /\ (lastLookup.called /\ LastColon(lastLookup.qName) = 0
         /\ lastLookup.found >= 0)
        => attributes[lastLookup.found + 1].prefix = << >>

\* C14 (amended): a lookup of "html:h1" finds an attribute with prefix "html"
\* and local name "h1", a lookup of "xyz:h1" does not, and a lookup of a name
\* without a colon finds the first attribute with that local name, whether
\* or not the attribute has a prefix.
C14_QNameMatching ==
    /\ PrefixedQueries
    /\ (lastLookup.called /\ ~lastLookup.failed
         /\ LastColon(lastLookup.qName) = 0)
        => lastLookup.found = FirstWithLocal(lastLookup.qName)

\* "h1" was looked up and found at an attribute whose prefix is "html",
\* ahead of an unprefixed "h1"
C14_Witness ==
    /\ lastLookup.called /\ ~lastLookup.failed
    /\ lastLookup.qName = H1
    /\ lastLookup.found = 0
    /\ Len(attributes) = 2
    /\ attributes[1].prefix = Html /\ attributes[1].local = H1
    /\ attributes[2].prefix = << >> /\ attributes[2].local = H1

(***************************************************************************)
(* Properties of the DEX verifier.                                         *)
(***************************************************************************)
\* the last run was of an accepted file with one byte changed, the byte
\* lying outside the magic, the checksum and the signature
FlippedOutsideSignature ==
    /\ dexRun.done
    /\ dexFlip.flipped
    /\ dexFlip.pos >= SignatureOff + SignatureLen

\* C15 as stated: after one byte outside the magic, checksum and signature
\* fields of an accepted buffer is flipped, dexFixByteOrdering fails, and
\* the check that fails is the checksum comparison.
C15_Original ==
    FlippedOutsideSignature
    => /\ dexRun.returned /\ ~dexRun.okay
       /\ dexRun.stage = "checksum" /\ dexRun.failedAt = "checksum"

\* what does hold: a changed byte between the signature and the stored file
\* size, the file-size field apart, fails the checksum comparison
C15_CoveredBytesFailChecksum ==
    (/\ FlippedOutsideSignature
     /\ dexFlip.pos < dexFile.fileSize
     /\ dexFlip.pos \notin HeaderOff("fileSize")..(HeaderOff("fileSize") + 3))
    => /\ dexRun.returned /\ ~dexRun.okay
       /\ dexRun.stage = "checksum" /\ dexRun.failedAt = "checksum"

\* the top byte of the file size was changed and adler32 ran off the buffer
C15_WildRead ==
    /\ FlippedOutsideSignature
    /\ dexFlip.pos = HeaderOff("fileSize") + 3
    /\ ~dexRun.returned

\* C16: on a little-endian host dexFixByteOrdering leaves every byte of the
\* buffer as it was handed in, whether the call succeeds, fails or dies.
C16_LittleEndianBufferUnchanged ==
    (hostOrder = "little" /\ dexRun.done) => dexRun.buf = dexFile.bytes

\* a little-endian run went through the header, the map, string ids and
\* string data and accepted the file
C16_Witness ==
    /\ hostOrder = "little"
    /\ dexRun.done /\ dexRun.okay
    /\ Len(dexFile.strings) >= 2
    /\ Len(dexRun.visited) >= 2 * Len(dexFile.strings)
    /\ dexRun.buf = dexFile.bytes

\* the map the file was built with
FileMap ==
    LET n       == Len(dexFile.strings)
        dataOff == SizeofDexHeader + WordLen * n
        mapOff  == dexFile.fileSize
                     - (WordLen + SizeofDexMapItem
                          * Len(EditMap(GoodMap(n, 0, 0), dexFile.edit)))
    IN  EditMap(GoodMap(n, dataOff, mapOff), dexFile.edit)

\* the map is not strictly ascending by offset, or names a type twice
MapDisordered ==
    \/ \E k \in 1..(Len(FileMap) - 1) :
          FileMap[k].offset >= FileMap[k + 1].offset
    \/ \E i, j \in 1..Len(FileMap) :
          i # j /\ FileMap[i].type = FileMap[j].type

\* C17: a file whose map is not strictly ascending by offset, or holds two
\* entries of one type, fails in swapMap: the data map is never allocated
\* and no item of any section is swapped, visited or registered.
C17_DisorderedMapFailsInSwapMap ==
    (dexRun.done /\ ~dexFlip.flipped /\ MapDisordered)
    => /\ ~dexRun.okay
       /\ dexRun.stage = "swapMap"
       /\ ~dexRun.pDataMap.allocated
       /\ dexRun.pDataMap.entries = << >>
       /\ dexRun.visited = << >>

\* a file with strings whose map lists the string data after the map was
\* verified on a big-endian host: the map items read so far are swapped,
\* and nothing else was touched
C17_Witness ==
    /\ dexRun.done /\ ~dexFlip.flipped /\ MapDisordered
    /\ dexFile.edit = "swap"
    /\ Len(dexFile.strings) >= 2
    /\ hostOrder = "big"
    /\ dexRun.failedAt = "map order"
    /\ dexRun.visited = << >>

\* string a comes strictly before string b: at the first unit where they
\* differ a has the smaller one, or a is a proper prefix of b
StrictlyBefore(a, b) ==
    \E i \in 1..(Len(b)) :
        /\ \A j \in 1..(i - 1) : j <= Len(a) /\ a[j] = b[j]
        /\ \/ i = Len(a) + 1
           \/ i <= Len(a) /\ a[i] < b[i]

\* two adjacent entries of the string table are not strictly increasing
StringsOutOfOrder ==
    \E k \in 1..(Len(dexFile.strings) - 1) :
        ~StrictlyBefore(dexFile.strings[k], dexFile.strings[k + 1])

\* C18: a file with two adjacent string-table entries that are not strictly
\* increasing by decoded content, equal ones included, is rejected, and
\* when verification gets as far as the cross-item pass it is that pass
\* that fails, at a string id.
C18_UnorderedStringsFail ==
    (dexRun.done /\ ~dexFlip.flipped /\ StringsOutOfOrder)
    => /\ ~dexRun.okay
       /\ dexRun.stage # "swapEverythingButHeaderAndMap"
       /\ dexRun.stage = "crossVerifyEverything"
            => /\ dexRun.failedAt = "item"
               /\ dexRun.visited[Len(dexRun.visited)].func
                    \in { "intraVerifyStringDataItem",
                          "crossVerifyStringIdItem" }

\* the cross-item pass rejected a table whose second string decodes to a
\* smaller unit than the first although its bytes are larger
C18_Witness ==
    /\ dexRun.done /\ ~dexFlip.flipped /\ StringsOutOfOrder
    /\ dexFile.strings = << <<1>>, <<0>> >>
    /\ dexRun.stage = "crossVerifyEverything"
    /\ ~dexRun.okay
    /\ dexRun.visited[Len(dexRun.visited)].func = "crossVerifyStringIdItem"

(***************************************************************************)
(* Properties of class-data verification.                                  *)
(***************************************************************************)
\* the methods a class-data item lists
ListedMethods(classData) ==
    { classData.directMethods[i] : i \in DOMAIN classData.directMethods }
    \cup
    { classData.virtualMethods[i] : i \in DOMAIN classData.virtualMethods }

\* the class definition's class-data item lists a method of another class
ForeignMethod ==
    /\ classFile.loaded
    /\ classFile.classDef.classDataOff = DataLayout.classData
    /\ \E m \in ListedMethods(classFile.classData) :
          /\ m.methodIdx < Len(MethodClassIdx)
          /\ MethodClassIdx[m.methodIdx + 1] # classFile.classDef.classIdx

\* the class-data item lists fields and has passed the structural pass
FieldsAhead ==
    Len(classFile.classData.staticFields)
        + Len(classFile.classData.instanceFields) > 0

NoMembers == classFile.loaded /\ classFile.classData = NoClassData

\* every index the cross-item pass follows lies in its table
ReadsInTables == ~ReadsBeyond(classFile.classData)

\* C19: a class definition whose class-data item lists a method declared by
\* another class is never accepted, with or without fields ahead of the
\* method: once the structural pass is through, the cross-item pass ends in
\* a failure (it returns one whenever every index it follows lies in its
\* table); a class-data item without members passes the cross-item pass for
\* every class definition that refers to it or to no class data
C19_ForeignMethodFails ==
    /\ ForeignMethod => ~classRun.okay
    /\ (ForeignMethod /\ classRun.done /\ classRun.stage # "structural")
          => /\ ~classRun.okay
             /\ ReadsInTables => classRun.returned
    /\ (NoMembers /\ classRun.done
            /\ classFile.classDef.classDataOff # DataLayout.code)
          => classRun.okay

\* a method of another class behind a field of the defining class: rejected
\* by the class_data visitor
C19_Witness ==
    /\ ForeignMethod /\ FieldsAhead
    /\ classRun.done /\ classRun.returned /\ ~classRun.okay
    /\ classRun.stage = "class_data"
    /\ dexGetFieldId(classFile, classFile.classData.staticFields[1].fieldIdx)
           = classFile.classDef.classIdx

(***************************************************************************)
(* Properties of code-item verification.                                   *)
(***************************************************************************)
\* the offsets at which the handlers of an encoded handler list start
RECURSIVE HandlerStarts(_, _)
HandlerStarts(handlers, offset) ==
    IF handlers = << >> THEN {}
    ELSE { offset }
           \cup HandlerStarts(Tail(handlers),
                              offset + Len(EncodeHandler(Head(handlers))))

RecordedOffsets ==
    HandlerStarts(codeFile.handlers, Len(Uleb(Len(codeFile.handlers))))

TryPastEnd ==
    \E i \in DOMAIN codeFile.tries :
        codeFile.tries[i].startAddr + codeFile.tries[i].insnCount
            > codeFile.insnsSize

TryBogusHandler ==
    \E i \in DOMAIN codeFile.tries :
        codeFile.tries[i].handlerOff \notin RecordedOffsets

\* try i as the host reads it in the buffer the visitor leaves
TryLeft(i) ==
    LET tries == dexGetTries(SizeofDexCode + codeFile.insnsSize * HalfLen)
                     + (i - 1) * SizeofDexTry
    IN  [ startAddr  |-> Field(codeRun.buf, tries, WordLen),
          insnCount  |-> Field(codeRun.buf, tries + WordLen, HalfLen),
          handlerOff |-> Field(codeRun.buf, tries + WordLen + HalfLen,
                               HalfLen) ]

\* C20: swapCodeItem rejects a code item with a try whose startAddr +
\* insnCount is above insnsSize or whose handlerOff is none of the recorded
\* handler offsets; the tries of an accepted code item, as the host reads
\* them afterwards, are those of the file, start below insnsSize and each
\* starts at or after the end (hence the start) of the one before
C20_TryBounds ==
    codeRun.done =>
        /\ (TryPastEnd \/ TryBogusHandler) => ~codeRun.okay
        /\ codeRun.okay =>
             \A i \in DOMAIN codeFile.tries :
                 /\ TryLeft(i) = codeFile.tries[i]
                 /\ TryLeft(i).startAddr < codeFile.insnsSize
                 /\ i > 1 =>
                      /\ TryLeft(i - 1).startAddr <= TryLeft(i).startAddr
                      /\ TryLeft(i - 1).startAddr + TryLeft(i - 1).insnCount
                             <= TryLeft(i).startAddr

\* a big-endian host rejects a code item whose second try runs past the
\* last instruction: the first try and both handler offsets are good
C20_Witness ==
    /\ codeRun.done /\ codeRun.returned /\ ~codeRun.okay
    /\ hostOrder = "big"
    /\ Len(codeFile.tries) = 2
    /\ ~TryBogusHandler
    /\ codeFile.tries[1].startAddr + codeFile.tries[1].insnCount
           <= codeFile.tries[2].startAddr
    /\ codeFile.tries[2].startAddr < codeFile.insnsSize
    /\ codeFile.tries[2].startAddr + codeFile.tries[2].insnCount
           > codeFile.insnsSize

(***************************************************************************)
(* Properties of string-data verification.                                 *)
(***************************************************************************)
\* the payload of the item, whole and inside the file
Payload == Tail(strFile.bytes)
WholeInFile == strFile.len = Len(strFile.bytes)

\* utf16_size = 1, then 110xxxxx 10xxxxxx, then the terminator
OneTwoByteUnit ==
    /\ strFile.loaded /\ WholeInFile
    /\ Head(strFile.bytes) = 1
    /\ Len(Payload) = 3
    /\ Payload[1] \div 32 = 6
    /\ Payload[2] \div 64 = 2
    /\ Payload[3] = 0

TwoByteValue == (Payload[1] % 32) * 64 + (Payload[2] % 64)

\* C1 BF 00: the two-byte encoding of code point 0x7F
TwoByte7F ==
    OneTwoByteUnit /\ Payload[1] = 193 /\ Payload[2] = 191

\* C21 as stated: the two-byte encoding of code point 0x7F with
\* utf16_size = 1 and a terminating zero is accepted
C21_Original ==
    (strRun.done /\ TwoByte7F) => strRun.okay

\* C21: an item of utf16_size 1 whose payload is one two-byte sequence and
\* the terminating zero is accepted exactly when the sequence encodes code
\* point 0 or a code point from 0x80 on; the two-byte encoding of 0x7F is
\* rejected as an illegal representation
C21_TwoByteEncoding ==
    /\ (strRun.done /\ OneTwoByteUnit)
          => /\ strRun.returned
             /\ strRun.okay <=> (TwoByteValue = 0 \/ TwoByteValue >= 128)
    /\ (strRun.done /\ TwoByte7F)
          => ~strRun.okay /\ strRun.why = "illegal representation"

C21_Witness ==
    /\ strRun.done /\ strRun.returned /\ TwoByte7F
    /\ ~strRun.okay /\ strRun.why = "illegal representation"

\* the number of bytes the lead byte of a sequence announces, 0 for a byte
\* that starts no sequence
UnitLen(byte) ==
    IF byte < 128 THEN 1
    ELSE IF byte \div 32 = 6 THEN 2
    ELSE IF byte \div 16 = 14 THEN 3
    ELSE 0

\* the offset after n sequences from offset off on, -1 when the bytes
\* mapped there do not hold n sequences
RECURSIVE Consumed(_, _)
Consumed(off, n) ==
    IF n = 0 THEN off
    ELSE IF off >= Len(strFile.bytes) THEN -1
    ELSE IF UnitLen(ByteAt(strFile.bytes, off)) = 0 THEN -1
    ELSE Consumed(off + UnitLen(ByteAt(strFile.bytes, off)), n - 1)

DeclaredUnits == Head(strFile.bytes)

\* the byte at offset off exists and starts sequence number k + 1
StartsUnit(off, k) == Consumed(1, k) = off /\ off < Len(strFile.bytes)

\* only one-byte characters lie between the length and offset off
OneByteUntil(off) ==
    \A q \in 1..(off - 1) : ByteAt(strFile.bytes, q) \in 1..127

\* C22: an accepted string-data item holds exactly the declared number of
\* sequences with no zero byte in them, the byte after them is zero, and
\* the returned position is the one after that zero; a zero byte where a
\* sequence should start before the declared count is reached fails (as
\* "shorter" when it is reached through one-byte characters inside the
\* file), and a non-zero byte after the declared count fails (as "longer"
\* when reached through one-byte characters)
C22_ExactUnitsThenZero ==
    strRun.done =>
        /\ strRun.okay =>
              /\ StartsUnit(strRun.next - 1, DeclaredUnits)
              /\ ByteAt(strFile.bytes, strRun.next - 1) = 0
              /\ \A q \in 1..(strRun.next - 2) :
                     ByteAt(strFile.bytes, q) # 0
        /\ \A off \in 1..(Len(strFile.bytes) - 1) :
              /\ (/\ \E k \in 0..(DeclaredUnits - 1) : StartsUnit(off, k)
                  /\ ByteAt(strFile.bytes, off) = 0)
                    => /\ ~strRun.okay
                       /\ (OneByteUntil(off) /\ off < strFile.len)
                             => strRun.why = "shorter"
              /\ (/\ StartsUnit(off, DeclaredUnits)
                  /\ ByteAt(strFile.bytes, off) # 0)
                    => /\ ~strRun.okay
                       /\ OneByteUntil(off) => strRun.why = "longer"

\* two declared units, a one-byte character and a two-byte sequence, then
\* the terminator: accepted, and the end is the offset after the zero
C22_Witness ==
    /\ strRun.done /\ strRun.okay /\ WholeInFile
    /\ strFile.bytes = << 2, 127, 194, 128, 0 >>
    /\ strRun.next = Len(strFile.bytes)

(***************************************************************************)
(* Properties of slot remapping.                                           *)
(***************************************************************************)
\* "this" is used only at the incoming-argument base register
ThisOnlyAtBase ==
    slotLocal.name = "this"
        => slotLocal.reg = slotLocal.registersSize - slotLocal.insSize

\* the debugger asked for the slot it was told
AskedForReported ==
    slotRun.stage = "resolved" /\ slotRun.requested = slotRun.reported

\* "this" is slot 0, another local in register 0 is slot kSlot0Sub, every
\* other register is reported unchanged
ReportedAsStated ==
    slotRun.stage # "none" =>
        slotRun.reported =
            IF slotLocal.name = "this" THEN 0
            ELSE IF slotLocal.reg = 0 THEN kSlot0Sub
            ELSE slotLocal.reg

\* C23 as stated: the reported slots are as described and, for every method
\* and every local with "this" only at the base register, the incoming
\* mapping of the reported slot is the true register
C23_Original ==
    /\ ReportedAsStated
    /\ (AskedForReported /\ ThisOnlyAtBase)
          => slotRun.resolved = slotLocal.reg

\* the round trip holds for every local but one in register kSlot0Sub
C23_RoundTripBelowSentinel ==
    /\ ReportedAsStated
    /\ (AskedForReported /\ ThisOnlyAtBase
            /\ ~(slotLocal.name # "this" /\ slotLocal.reg = kSlot0Sub))
          => slotRun.resolved = slotLocal.reg

\* a local named "x" in register kSlot0Sub is reported as slot kSlot0Sub and
\* that slot resolves to register 0
C23_SentinelCollision ==
    /\ AskedForReported /\ ThisOnlyAtBase
    /\ slotLocal.name = "x" /\ slotLocal.reg = kSlot0Sub
    /\ slotRun.reported = kSlot0Sub
    /\ slotRun.resolved = 0

(***************************************************************************)
(* Properties of array windows.                                            *)
(***************************************************************************)
\* [firstIndex, firstIndex + count) lies inside [0, length)
WindowInside ==
    /\ arrReq.firstIndex >= 0
    /\ arrReq.count >= 0
    /\ arrReq.firstIndex <= arrReq.length - arrReq.count

\* the call returned false and touched no element
WindowRejected ==
    /\ ~arrRun.result
    /\ arrRun.touched = 0
    /\ ~arrRun.wild

\* C24 as stated: for all int firstIndex and count, either function returns
\* false and reads or writes no element unless the window lies inside the
\* array
C24_Original ==
    (arrRun.stage = "done" /\ ~WindowInside) => WindowRejected

\* where firstIndex and count are both non-negative and their sum fits in
\* an int, a window outside the array is rejected
C24_NonNegativeWindow ==
    (/\ arrRun.stage = "done"
     /\ arrReq.firstIndex >= 0 /\ arrReq.count >= 0
     /\ ~IntSumOverflows(arrReq.firstIndex, arrReq.count)
     /\ ~WindowInside) => WindowRejected

\* firstIndex = -1 and count = 1 are accepted and the element before the
\* array is touched
C24_NegativeFirstIndex ==
    /\ arrRun.stage = "done"
    /\ arrReq.firstIndex = -1 /\ arrReq.count = 1
    /\ arrRun.result
    /\ arrRun.first = -1 /\ arrRun.touched = 1

(***************************************************************************)
(* Properties of a parse call.                                             *)
(***************************************************************************)
\* one of the engine's callbacks is entered
CallbackEntered ==
    \/ parse_startElement
    \/ parse_endElement
    \/ parse_startNamespace
    \/ parse_endNamespace
    \/ text
    \/ comment
    \/ startCdata
    \/ endCdata
    \/ startDtd
    \/ endDtd
    \/ processingInstruction
    \/ handleExternalEntity
    \/ unparsedEntityDecl
    \/ notationDecl

\* C25: a callback entered while a fault is pending calls no listener
\* operation, leaves the name stack as it is, and leaves the fault pending
C25_FirstFaultWins ==
    [][(xmlFault /\ CallbackEntered)
          => /\ lastEvent' = lastEvent
             /\ stringStack' = stringStack
             /\ xmlFault']_vars

\* the text callback was entered with the fault of a start-element listener
\* pending, and the listener's last call is still that start element
C25_Witness ==
    /\ Parsing /\ xmlFault
    /\ parseLog.entered = "text" /\ parseLog.pending
    /\ lastEvent.kind = "startElement"
    /\ stringStack.size = 3

\* C26: after a feed entry point has returned, the context holds neither
\* the execution handle nor the listener
C26_HandlesCleared ==
    parseCtx.stage = "returned" => ~parseCtx.env /\ ~parseCtx.object

\* an entry point returned with the fault of the end-CDATA listener pending
C26_Witness ==
    /\ parseCtx.stage = "returned"
    /\ xmlFault /\ ~parseCtx.threw
    /\ lastEvent.kind = "endCdata"

(***************************************************************************)
(* Properties of the order of the verification steps.                      *)
(***************************************************************************)
\* the visitors of the cross-item pass
CrossVisitors == { "crossVerifyStringIdItem" }

\* the run got as far as this step, and the step failed
FailedIn(stage) == dexRun.stage = stage /\ ~dexRun.okay

\* the file as handed in has the magic and the version, is no shorter than
\* its header says, and bears the checksum of its bytes
MagicLengthChecksum ==
    /\ FieldBytes(dexFile.bytes, 0, Len(DEX_MAGIC)) = DEX_MAGIC
    /\ FieldBytes(dexFile.bytes, Len(DEX_MAGIC), Len(DEX_MAGIC_VERS))
         = DEX_MAGIC_VERS
    /\ dexFile.len >= ExpectedLen(dexFile.bytes)
    /\ ChecksumMatches(dexFile.bytes, ExpectedLen(dexFile.bytes))

\* C27: a call that returned success went through every step up to the
\* cross-item pass with no check failed, on a file with the right magic,
\* length and checksum; a call that failed stopped in the step that failed:
\* before swapMap no data map was allocated, up to swapMap no item was
\* visited, and in the structural pass no cross-item visitor had run; the
\* cross-item pass is reached only with the data map allocated.
C27_AllOrNothing ==
    (dexRun.done /\ dexRun.returned) =>
        /\ dexRun.okay
             => /\ dexRun.stage = "crossVerifyEverything"
                /\ dexRun.failedAt = "none"
                /\ MagicLengthChecksum
        /\ ~dexRun.okay => dexRun.failedAt # "none"
        /\ dexRun.stage # "crossVerifyEverything" => ~dexRun.okay
        /\ dexRun.stage \in { "checksum", "header" }
             => ~dexRun.pDataMap.allocated /\ dexRun.visited = << >>
        /\ dexRun.stage = "swapMap" => dexRun.visited = << >>
        /\ dexRun.stage = "swapEverythingButHeaderAndMap"
             => \A i \in 1..Len(dexRun.visited) :
                    dexRun.visited[i].func \notin CrossVisitors
        /\ dexRun.stage = "crossVerifyEverything"
             => dexRun.pDataMap.allocated

\* the structural pass failed after it had visited both string ids and the
\* first string of a file, and the cross-item pass did not run
C27_Witness ==
    /\ dexRun.done /\ dexRun.returned
    /\ FailedIn("swapEverythingButHeaderAndMap")
    /\ dexFile.edit = "short data"
    /\ Len(dexRun.visited) = 4
    /\ \A i \in 1..Len(dexRun.visited) :
           dexRun.visited[i].func \notin CrossVisitors

(***************************************************************************)
(* Properties of the structural pass.                                      *)
(***************************************************************************)
\* the offsets registered in the Tracking Map, in the order of registration
Registered == dexRun.pDataMap.entries

\* where the item registered at this offset ends: at the next registered
\* offset, or at the byte after its terminating zero
RegisteredEnd(i) ==
    intraVerifyStringDataItem(dexRun.buf, dexFile.len,
                              Registered[i].offset).next

\* the structural pass returned success
StructuralPassed ==
    \/ dexRun.stage = "crossVerifyEverything"
    \/ dexRun.stage = "swapEverythingButHeaderAndMap" /\ dexRun.okay

\* C30: the registered offsets are strictly increasing, whether the pass
\* succeeds or fails; a file whose string data begins below the end of the
\* string ids, or with a non-zero byte in the gap before a section or in
\* the alignment padding before an item, is rejected, by that check of the
\* structural pass when the pass is reached, and never later; and
\* when the pass succeeds every registered item lies inside
\* [dataOff, dataOff + dataSize].
C30_RegisteredOffsetsIncrease ==
    dexRun.done =>
        /\ \A i \in 1..(Len(Registered) - 1) :
               Registered[i].offset < Registered[i + 1].offset
        /\ (dexRun.returned /\ ~dexFlip.flipped
              /\ dexFile.edit \in { "overlap", "gap", "item padding" })
             => /\ ~dexRun.okay
                /\ dexRun.stage # "crossVerifyEverything"
                /\ dexRun.stage = "swapEverythingButHeaderAndMap"
                     => dexRun.failedAt =
                          (CASE dexFile.edit = "overlap" -> "section overlap"
                             [] dexFile.edit = "gap"
                                  -> "non-zero padding before section"
                             [] dexFile.edit = "item padding"
                                  -> "non-zero padding")
        /\ StructuralPassed
             => \A i \in 1..Len(Registered) :
                    /\ Header(dexRun.buf, "dataOff") <= Registered[i].offset
                    /\ RegisteredEnd(i)
                         <= Header(dexRun.buf, "dataOff")
                              + Header(dexRun.buf, "dataSize")

\* a file whose data section ends inside its second string: both strings
\* were registered, in increasing order, before the pass failed at the end
\* of the data subsection
C30_Witness ==
    /\ dexRun.done /\ dexRun.returned
    /\ dexFile.edit = "short data"
    /\ Len(Registered) = 2
    /\ Registered[1].offset < Registered[2].offset
    /\ FailedIn("swapEverythingButHeaderAndMap")
    /\ dexRun.failedAt = "data subsection end"

(***************************************************************************)
(* Properties of posted events.                                            *)
(***************************************************************************)
\* the last post put the address of this object into the table
Gained(obj) == obj \in dbgRegistry /\ obj \notin postEvent.before

C28_ClassObjectAsThis ==
    /\ postEvent.kind = "location"
    /\ ~postEvent.delivered
    /\ postEvent.connected
    /\ postEvent.thisPtr = postEvent.clazz
    /\ Gained(postEvent.thisPtr)
    /\ postSent.thisId = PackId(postEvent.thisPtr, kObjectId)

\* the catch location is zeroed exactly when the exception is not caught
CatchZeroedIffUncaught ==
    (postSent.catchLoc = ZeroLocation) <=> (postEvent.catchRelPc < 0)

\* with a debugger connected the "this" of the throwing frame is in the
\* table, and its identifier is forwarded
ThisPinned ==
    (postEvent.connected /\ postEvent.thisPtr # NULL)
    => /\ postEvent.thisPtr \in dbgRegistry
       /\ postSent.thisId = PackId(postEvent.thisPtr, kObjectId)

ReachedMapLoop ==
    /\ dexRun.done /\ dexRun.returned
    /\ dexRun.stage \notin { "none", "checksum", "header" }
    /\ dexRun.failedAt # "map list size"

\* the locals of swapMap at the end of its loop, for the file of the run
MapLocals ==
    LET h      == swapDexHeader(dexFile.bytes, dexFile.len).buf
        mapOff == Header(h, "mapOff")
        buf1   == SWAP_FIELD(h, mapOff, WordLen)
    IN  swapMap_Locals(buf1, mapOff, Field(buf1, mapOff, WordLen))

\* the item counts of the data entries of the swapped map, from entry k on
RECURSIVE DataItemSum(_, _)
DataItemSum(buf, k) ==
    IF k > MapCount(buf) THEN 0
    ELSE LET item == MapItem(buf, Header(buf, "mapOff"), k)
         IN  (IF isDataSectionType(item.type) THEN item.size ELSE 0)
               + DataItemSum(buf, k + 1)

\* C31: the budget stays between zero and dataSize and, with the running
\* sum, adds up to dataSize; a map that gives the data section more items
\* than dataSize is rejected by swapMap; when swapMap succeeds the sum of
\* the item counts of the data entries is at most dataSize and is the
\* capacity of the Tracking Map, and the structural pass registers no more
\* items than that.
C31_BudgetNeverWraps ==
    ReachedMapLoop =>
        \E s \in { MapLocals } :
        \E dataSize \in { Header(s.buf, "dataSize") } :
            /\ s.dataItemsLeft >= 0 /\ s.dataItemsLeft <= dataSize
            /\ s.dataItemCount = dataSize - s.dataItemsLeft
            /\ s.failedAt = "unrealistically many items"
                 => /\ FailedIn("swapMap")
                    /\ dexRun.failedAt = "unrealistically many items"
                    /\ ~dexRun.pDataMap.allocated
            /\ (dexFile.edit = "tiny data" /\ ~dexFlip.flipped)
                 => s.failedAt = "unrealistically many items"
            /\ dexRun.pDataMap.allocated
                 => /\ DataItemSum(dexRun.buf, 1) <= dataSize
                    /\ dexRun.pDataMap.capacity = DataItemSum(dexRun.buf, 1)
                    /\ Len(Registered) <= dexRun.pDataMap.capacity

\* a file whose data section is declared as long as its string items are
\* many: the map list entry finds the budget at zero and swapMap fails
C31_Witness ==
    /\ ReachedMapLoop
    /\ dexFile.edit = "tiny data"
    /\ FailedIn("swapMap")
    /\ dexRun.failedAt = "unrealistically many items"
    /\ MapLocals.dataItemsLeft = 0
    /\ MapLocals.dataItemCount = Len(dexFile.strings)

(***************************************************************************)
(* Properties of the index tables.                                         *)
(***************************************************************************)
\* list a is before list b: at the first position where they differ a has
\* the smaller index, or a ends there and b goes on
ListLess(a, b) ==
    \E k \in 0..Len(a) :
        /\ k <= Len(b)
        /\ \A j \in 1..k : a[j] = b[j]
        /\ IF k = Len(a) THEN k < Len(b)
           ELSE k < Len(b) /\ a[k + 1] < b[k + 1]

\* return type index first, then the parameter lists
ProtoLess(p, q) ==
    \/ p.returnTypeIdx < q.returnTypeIdx
    \/ p.returnTypeIdx = q.returnTypeIdx /\ ListLess(p.params, q.params)

\* the key of a field or method entry
IdKey(item) ==
    << item.classIdx, item.nameIdx,
       IF idTable.kind = "field" THEN item.typeIdx ELSE item.protoIdx >>

\* the item at which the iteration stopped, and the one before it
StoppedAt == idTable.items[idRun.next + 1]
StoppedAfter == idTable.items[idRun.next]

\* the iteration stopped at an item that follows another
StoppedAtFollower == idRun.done /\ ~idRun.okay /\ idRun.next >= 1

\* C33: every accepted proto entry that follows another is above it in the
\* order (return type index, parameter list); an entry is rejected for its
\* order only when it is not above its predecessor, and a rejected entry
\* that is above its predecessor failed a descriptor check.
C33_ProtoOrder ==
    idTable.kind = "proto" =>
        /\ \A i \in 2..idRun.next :
               ProtoLess(idTable.items[i - 1], idTable.items[i])
        /\ StoppedAtFollower =>
               IF ProtoLess(StoppedAfter, StoppedAt)
               THEN idRun.failedAt = "descriptor" /\ ~idRun.descOk
               ELSE idRun.descOk =>
                      idRun.failedAt \in
                        { "Out-of-order proto_id return types",
                          "Out-of-order proto_id arguments" }
        /\ (StoppedAtFollower /\ idRun.descOk
              /\ StoppedAfter = StoppedAt)
             => idRun.failedAt = "Out-of-order proto_id arguments"

\* two protos of one return type, the parameters of the first a proper
\* prefix of the parameters of the second: both accepted
C33_Witness ==
    /\ idTable.kind = "proto"
    /\ idRun.done /\ idRun.okay /\ idRun.next = 2
    /\ idTable.items[1].returnTypeIdx = idTable.items[2].returnTypeIdx
    /\ idTable.items[1].params = << 1 >>
    /\ idTable.items[2].params = << 1, 0 >>

\* key a is before key b
KeyLess(a, b) ==
    \/ a[1] < b[1]
    \/ a[1] = b[1] /\ a[2] < b[2]
    \/ a[1] = b[1] /\ a[2] = b[2] /\ a[3] < b[3]

\* C34: every accepted entry of the field table and of the method table
\* that follows another has the larger key; an entry not above its
\* predecessor, one equal to it included, is rejected.
C34_IdOrder ==
    idTable.kind \in { "field", "method" } =>
        /\ \A i \in 2..idRun.next :
               KeyLess(IdKey(idTable.items[i - 1]), IdKey(idTable.items[i]))
        /\ StoppedAtFollower =>
               IF KeyLess(IdKey(StoppedAfter), IdKey(StoppedAt))
               THEN idRun.failedAt = "descriptor" /\ ~idRun.descOk
               ELSE idRun.descOk =>
                      idRun.failedAt =
                        (IF idTable.kind = "field"
                         THEN "Out-of-order field_ids"
                         ELSE "Out-of-order method_ids")

\* a field entry equal to its predecessor, with valid descriptors: rejected
C34_Witness ==
    /\ idTable.kind = "field"
    /\ StoppedAtFollower /\ idRun.descOk
    /\ StoppedAfter = StoppedAt
    /\ idRun.failedAt = "Out-of-order field_ids"

(***************************************************************************)
(* Properties of the class_defs section.                                   *)
(***************************************************************************)
\* a field of definition k as the file stores it
StoredClassDef(k, name) ==
    LittleEndian(FieldBytes(defFile.bytes, ClassDefOff(k, name), WordLen))

\* the definitions 1..n have n different class type indexes
DistinctClasses(n) ==
    \A i, j \in 1..n :
        i # j => StoredClassDef(i, "classIdx") # StoredClassDef(j, "classIdx")

\* the iteration of the cross-item pass over the section is under way
InClassDefs == defRun.stage = "class_defs" /\ ~defRun.done

\* C32: while the section is iterated the bitmap holds exactly the class
\* type indexes of the definitions accepted so far, none at the start of
\* the section in any call, and these are all different; a definition whose
\* class type index was seen before is rejected when it is met; so every
\* accepted file defines each type index at most once.
C32_NoDuplicateClassDefs ==
    /\ InClassDefs
         => /\ defRun.bits =
                 { StoredClassDef(k, "classIdx") : k \in 1..defRun.next }
            /\ DistinctClasses(defRun.next)
    /\ (defRun.done /\ defRun.okay) => DistinctClasses(defFile.count)
    /\ (defRun.done /\ ~defRun.okay /\ defRun.stage = "class_defs")
         => /\ DistinctClasses(defRun.next)
            /\ (/\ StoredClassDef(defRun.next + 1, "classIdx")
                      \in defFile.classTypes
                /\ ~DistinctClasses(defRun.next + 1))
                 => defRun.failedAt = "Duplicate class definition"
    /\ defRun.failedAt = "Duplicate class definition"
         => ~DistinctClasses(defRun.next + 1)

\* the second call on a file: its second definition names the class of the
\* first and is rejected, the first having been accepted again
C32_Witness ==
    /\ defRun.calls = 2
    /\ defRun.done /\ ~defRun.okay
    /\ defRun.next = 1
    /\ defRun.failedAt = "Duplicate class definition"
    /\ StoredClassDef(1, "classIdx") = StoredClassDef(2, "classIdx")

\* the structural pass has succeeded
DefsSwapped == defRun.stage \in { "cross", "class_defs" }

\* C39 as stated: after the structural pass every field of every class
\* definition reads, on the host, as the value the file stores
C39_Original ==
    DefsSwapped =>
        \A k \in 1..defFile.count :
            \A i \in DOMAIN ClassDefFields :
                ClassDef(defRun.buf, k, ClassDefFields[i])
                  = StoredClassDef(k, ClassDefFields[i])

\* the seven fields before the static-values offset are normalized, and a
\* little-endian host reads all eight as stored
C39_SwappedFieldsNormalized ==
    DefsSwapped =>
        \A k \in 1..defFile.count :
            \A i \in DOMAIN ClassDefFields :
                (ClassDefFields[i] # "staticValuesOff"
                   \/ hostOrder = "little")
                => ClassDef(defRun.buf, k, ClassDefFields[i])
                     = StoredClassDef(k, ClassDefFields[i])

\* a big-endian host: the one definition has its static values at the
\* registered encoded array, the cross-item pass reads another offset and
\* rejects the file
C39_BigEndianRejects ==
    /\ hostOrder = "big"
    /\ defFile.count = 1
    /\ StoredClassDef(1, "staticValuesOff") = DefLayout.encodedArray
    /\ defRun.done /\ ~defRun.okay
    /\ defRun.failedAt = "static values offset"
    /\ ClassDef(defRun.buf, 1, "staticValuesOff") # DefLayout.encodedArray

\* a little-endian host accepts that file
C39_LittleEndianAccepts ==
    /\ hostOrder = "little"
    /\ defFile.count = 1
    /\ StoredClassDef(1, "staticValuesOff") = DefLayout.encodedArray
    /\ defRun.done /\ defRun.okay

(***************************************************************************)
(* Properties of the address set of a line.                                *)
(***************************************************************************)
\* the position entries at or below an offset
EntriesUpTo(a) ==
    { i \in 1..Len(lineReq.entries) : lineReq.entries[i].address <= a }

\* the last position entry at or below the offset has the requested line
LineOwns(a) ==
    /\ EntriesUpTo(a) # {}
    /\ \E i \in EntriesUpTo(a) :
          /\ \A j \in EntriesUpTo(a) : j <= i
          /\ lineReq.entries[i].lineNum = lineReq.line

\* C35: the set returned has the bit of an offset below insnsSize exactly
\* when the last position entry at or below the offset has the requested
\* line; no other bit is on.
C35_AddressSetOfLine ==
    lineRun.stage = "returned" =>
        /\ \A a \in 0..(lineReq.insnsSize - 1) :
               (a \in lineRun.set) <=> LineOwns(a)
        /\ \A a \in lineRun.set : a < lineReq.insnsSize

\* the run opened by the last entry goes on to the end of the method, and
\* a run before it was closed by an entry of another line
C35_Witness ==
    /\ lineRun.stage = "returned"
    /\ Len(lineReq.entries) = 3
    /\ lineReq.entries[1].lineNum = lineReq.line
    /\ lineReq.entries[2].lineNum # lineReq.line
    /\ lineReq.entries[3].lineNum = lineReq.line
    /\ lineReq.entries[1].address = 0
    /\ lineReq.entries[2].address = 1
    /\ lineReq.entries[3].address = 2
    /\ lineReq.insnsSize = 4
    /\ lineRun.set = { 0, 2, 3 }

(***************************************************************************)
(* Properties of the frames of a thread.                                   *)
(***************************************************************************)
\* the thread identifier matches a thread of the list
ThreadListed(threadId) ==
    \E i \in 1..Len(threadList) : threadList[i].threadObj = threadId

\* the frames that are not break frames on the chain of the first thread
\* with the identifier
PlainFrames(threadId) ==
    LET first == CHOOSE i \in 1..Len(threadList) :
                    /\ threadList[i].threadObj = threadId
                    /\ \A j \in 1..(i - 1) :
                           threadList[j].threadObj # threadId
    IN  { k \in 1..Len(threadList[first].frames) :
             ~threadList[first].frames[k] }

\* C37: the frame count of a thread identifier that matches no thread is
\* -1; the count of a thread found is the number of frames that are not
\* break frames, which are the indexes for which dvmDbgGetThreadFrame
\* returns true.
C37_Original ==
    frameCall.op = "count" =>
        IF ~ThreadListed(frameCall.threadId)
        THEN frameCall.result = -1
        ELSE /\ frameCall.result = Cardinality(PlainFrames(frameCall.threadId))
             /\ \A num \in (-1)..(MaxFrames + 1) :
                    GetThreadFrame(threadList, frameCall.threadId, num)
                        <=> (0 <= num /\ num < frameCall.result)

\* the frame count of a thread identifier that matches no thread is 0, the
\* count of a thread whose frames are all break frames
C37_UnknownThreadCountsZero ==
    /\ frameCall.op = "count"
    /\ ~ThreadListed(frameCall.threadId)
    /\ frameCall.result = 0
    /\ \E i \in 1..Len(threadList) :
          /\ threadList[i].frames # << >>
          /\ GetThreadFrameCount(threadList, threadList[i].threadObj) = 0

\* the count of a thread found is the number of frames that are not break
\* frames, the indexes for which dvmDbgGetThreadFrame returns true, and
\* dvmDbgGetThreadFrame returns false for a thread not found
C37_CountOfFoundThread ==
    /\ frameCall.op = "count" /\ ThreadListed(frameCall.threadId) =>
          /\ frameCall.result = Cardinality(PlainFrames(frameCall.threadId))
          /\ \A num \in (-1)..(MaxFrames + 1) :
                 GetThreadFrame(threadList, frameCall.threadId, num)
                     <=> (0 <= num /\ num < frameCall.result)
    /\ frameCall.op = "frame" /\ ~ThreadListed(frameCall.threadId) =>
          frameCall.result = 0

(***************************************************************************)
(* Properties of the structural check of the four member lists.            *)
(***************************************************************************)
\* the structural pass went past the class-data item
PassedClassData == classFile.loaded /\ classRun.stage # "structural"

\* C38: the structural check of a class-data item fails whenever any of the
\* four member lists fails its check: static fields, instance fields,
\* direct methods, virtual methods.
C38_Original ==
    PassedClassData =>
        /\ verifyFields(classFile.classData.staticFields, TRUE)
        /\ verifyFields(classFile.classData.instanceFields, FALSE)
        /\ verifyMethods(classFile.classData.directMethods, TRUE)
        /\ verifyMethods(classFile.classData.virtualMethods, FALSE)

\* an instance field carrying ACC_STATIC went through the structural check
C38_StaticFlaggedInstanceFieldPasses ==
    /\ PassedClassData
    /\ \E i \in 1..Len(classFile.classData.instanceFields) :
          "ACC_STATIC" \in classFile.classData.instanceFields[i].accessFlags

\* the other three lists are checked: a file that went past the class-data
\* item has well-formed static fields, direct and virtual methods, and a
\* static field without ACC_STATIC is rejected
C38_OtherListsChecked ==
    PassedClassData =>
        /\ verifyFields(classFile.classData.staticFields, TRUE)
        /\ verifyMethods(classFile.classData.directMethods, TRUE)
        /\ verifyMethods(classFile.classData.virtualMethods, FALSE)

(***************************************************************************)
(* Properties of the handles across an external entity.                    *)
(***************************************************************************)
\* C36: a callback of a parse leaves env and object of the parsing context
\* as it found them, handleExternalEntity included even when its listener
\* fed an entity parser that left both NULL; the callbacks after it see
\* valid handles.
C36_HandlesRestored ==
    [][Parsing /\ Parsing' =>
          /\ parseCtx'.env = parseCtx.env /\ parseCtx'.env
          /\ parseCtx'.object = parseCtx.object /\ parseCtx'.object]_vars

\* a listener fed an entity parser, and a later callback of the outer parse
\* called the listener with the handles in place
C36_Witness ==
    /\ Parsing
    /\ parseLog.fed
    /\ lastEvent.kind = "text"
    /\ parseCtx.env /\ parseCtx.object

(***************************************************************************)
(* Properties of listener calls made with a fault raised in the callback.  *)
(***************************************************************************)
\* C40: a start-element callback in which interning a name failed returns
\* without calling the listener, and a text or comment callback whose buffer
\* could not be allocated returns without calling the listener.
C40_Original ==
    /\ lastEvent.kind = "startElement" => lastEvent.qName # NoHandle
    /\ lastEvent.kind \in { "text", "comment" } => ~parseLog.unbuffered

\* the start-element listener was called with a qName that failed to intern
\* and the fault pending
C40_ListenerCalledWithFailedName ==
    /\ Parsing /\ xmlFault
    /\ lastEvent.kind = "startElement"
    /\ lastEvent.qName = NoHandle

\* the text listener was called with the length -1 that fillBuffer returns
\* when the buffer cannot be allocated
C40_ListenerHandedMinusOne ==
    /\ Parsing /\ xmlFault
    /\ lastEvent.kind = "text"
    /\ parseLog.unbuffered

====
